---- MODULE Spec2Model ----
(***************************************************************************)
(* Resumable upload streaming core of google-cloud-cpp (storage):          *)
(*   CurlResumableStreambuf   (curl_resumable_streambuf.cc)                *)
(*   ObjectWriteStreambuf::Close (object_streambuf.cc)                     *)
(*   CurlResumableUploadSession (curl_resumable_upload_session.cc)         *)
(*   UploadChunkRequest       (object_requests.h)                          *)
(*                                                                         *)
(* Bytes are kept run-length encoded.  A run [k, s, n] stands for n bytes: *)
(*   k = "w": the bytes number s .. s+n-1 of what the application wrote    *)
(*            (every written byte is told apart by its position),          *)
(*   k = "z": n NUL bytes that std::string put there (terminator, resize), *)
(*   k = "j": n bytes of unspecified content, read through a put-area      *)
(*            pointer that no longer points into the string.               *)
(* This keeps the real chunk quantum (262144) in the model.                *)
(***************************************************************************)
EXTENDS Integers, Sequences, FiniteSets, TLC

VARIABLES
    streambuf,   \* the CurlResumableStreambuf object
    session,     \* the CurlResumableUploadSession it owns
    validator,   \* the HashValidator it owns
    calls,       \* history: every request the session sent, in order
    crashed,     \* the process died (null dereference)
    written,     \* history: number of bytes handed to sputc/sputn so far
    ret,         \* history: the last operation and what it returned
    nops,        \* number of operations done (bounded)
    twin,        \* a second stream of the same configuration, with its session,
                 \* validator and calls, fed the same payload one byte at a time
    reader,      \* an ObjectReadStreambuf with its source and its validator
    calc,        \* a call of a function of the library: argument and results
    batcher      \* a MutationBatcher with the threads that use it

vars == <<streambuf, session, validator, calls, crashed, written, ret, nops,
          twin, reader, calc, batcher>>

-----------------------------------------------------------------------------
(* Program constants and bounds *)

kChunkSizeQuantum == 262144

MaxOps == 3
MaxFaults == 2
SmallLen == 6
MaxQuanta == 3
MaxCalls == 3

Q == kChunkSizeQuantum

\* the sizes handed to the constructor
MaxBufferSizes == {0, 1, Q, Q + 1}

\* the lengths of the buffers handed to sputn
WriteSizes == {1, SmallLen, Q - 1, Q, Q + SmallLen, MaxQuanta * Q}

-----------------------------------------------------------------------------
(* std::string contents, run-length encoded *)

ByteRun(k, s, n) == [k |-> k, s |-> s, n |-> n]

RECURSIVE Size(_)
Size(r) == IF r = <<>> THEN 0 ELSE Head(r).n + Size(Tail(r))

Joins(x, y) == x.k = y.k /\ (x.k = "w" => y.s = x.s + x.n)

PushRun(r, x) ==
    IF x.n = 0 THEN r
    ELSE IF r = <<>> THEN <<x>>
    ELSE IF Joins(r[Len(r)], x)
         THEN [r EXCEPT ![Len(r)].n = @ + x.n]
         ELSE Append(r, x)

\* a followed by b
RECURSIVE Cat(_, _)
Cat(a, b) == IF b = <<>> THEN a ELSE Cat(PushRun(a, Head(b)), Tail(b))

\* the first n bytes of r
RECURSIVE Prefix(_, _)
Prefix(r, n) ==
    IF n <= 0 \/ r = <<>> THEN <<>>
    ELSE IF Head(r).n <= n
         THEN <<Head(r)>> \o Prefix(Tail(r), n - Head(r).n)
         ELSE <<[Head(r) EXCEPT !.n = n]>>

\* r without its first n bytes
RECURSIVE Suffix(_, _)
Suffix(r, n) ==
    IF n <= 0 \/ r = <<>> THEN r
    ELSE IF Head(r).n <= n
         THEN Suffix(Tail(r), n - Head(r).n)
         ELSE <<[Head(r) EXCEPT !.n = @ - n,
                                !.s = IF Head(r).k = "w" THEN @ + n ELSE @]>>
              \o Tail(r)

\* bytes [from, to) of r
Range(r, from, to) == Suffix(Prefix(r, to), from)

Nul(n) == IF n <= 0 THEN <<>> ELSE <<ByteRun("z", 0, n)>>
Junk(n) == IF n <= 0 THEN <<>> ELSE <<ByteRun("j", 0, n)>>
AppBytes(first, n) == IF n <= 0 THEN <<>> ELSE <<ByteRun("w", first, n)>>

Max(a, b) == IF a >= b THEN a ELSE b

-----------------------------------------------------------------------------
(* UploadChunkRequest *)

(* std::size_t, 64 bits wide, kept in three parts:                         *)
(*   value = h2 * 2^41 + h1 * 2^18 + lo,  h2, h1 < 2^23,  lo < 2^18        *)
(* so that lo is the value modulo the quantum and <<h2, h1>> the value     *)
(* divided by the quantum.                                                 *)

HalfRange == 8388608

SizeT(n) == [h2 |-> 0, h1 |-> n \div kChunkSizeQuantum, lo |-> n % kChunkSizeQuantum]

\* the value of a std::size_t that is below 2^31
AsInt(x) == x.h1 * kChunkSizeQuantum + x.lo

Less(x, y) ==
    \/ x.h2 < y.h2
    \/ x.h2 = y.h2 /\ x.h1 < y.h1
    \/ x.h2 = y.h2 /\ x.h1 = y.h1 /\ x.lo < y.lo

\* x - y in std::size_t arithmetic (modulo 2^64)
Minus(x, y) ==
    LET lo == x.lo - y.lo
        b1 == IF lo < 0 THEN 1 ELSE 0
        h1 == x.h1 - y.h1 - b1
        b2 == IF h1 < 0 THEN 1 ELSE 0
        h2 == x.h2 - y.h2 - b2
    IN [h2 |-> (h2 + HalfRange) % HalfRange,
        h1 |-> (h1 + HalfRange) % HalfRange,
        lo |-> (lo + kChunkSizeQuantum) % kChunkSizeQuantum]

\* (n + 1) * kChunkSizeQuantum in std::size_t arithmetic, n the quotient of x
NextQuantum(x) ==
    LET h1 == x.h1 + 1
        c1 == IF h1 >= HalfRange THEN 1 ELSE 0
    IN [h2 |-> (x.h2 + c1) % HalfRange, h1 |-> h1 % HalfRange, lo |-> 0]

RoundUpToQuantum(max_chunk_size) ==
    IF max_chunk_size.lo = 0
    THEN max_chunk_size
    ELSE NextQuantum(max_chunk_size)

UploadChunkRequest(upload_session_url, range_begin, payload, source_size, last_chunk) ==
    [upload_session_url |-> upload_session_url,
     range_begin        |-> range_begin,
     payload            |-> payload,
     source_size        |-> source_size,
     last_chunk         |-> last_chunk]

QueryResumableUploadRequest(upload_session_url) ==
    [upload_session_url |-> upload_session_url,
     range_begin        |-> 0,
     payload            |-> <<>>,
     source_size        |-> 0,
     last_chunk         |-> FALSE]

-----------------------------------------------------------------------------
(* The service behind client_->UploadChunk / QueryResumableUpload: it      *)
(* answers a request with an error or with a ResumableUploadResponse.      *)
(* e says which; n names the response (its payload).                       *)
(*   "error": a Status that is not OK                                      *)
(*   "full" : everything sent so far is committed                          *)
(*   "keep" : success, but nothing of this request's payload is committed  *)
(*   "abs"  : success, last_committed_byte = e.lcb                         *)

ErrorStatus == "UNAVAILABLE"

NoUploadResponse ==
    [upload_session_url |-> "", last_committed_byte |-> 0, payload |-> 0]

\* the last_committed_byte of a service that has committed the first end
\* bytes: 0 when there are none, as the mocks of the tests answer
LastCommittedByte(end) == IF end = 0 THEN 0 ELSE end - 1

ClientReply(range_begin, sent, e, n) ==
    IF e.kind = "error"
    THEN [ok |-> FALSE, status |-> ErrorStatus, value |-> NoUploadResponse]
    ELSE [ok |-> TRUE, status |-> "OK",
          value |-> [upload_session_url |-> e.url,
                     last_committed_byte |->
                        CASE e.kind = "full" -> LastCommittedByte(range_begin + sent)
                          [] e.kind = "keep" -> LastCommittedByte(range_begin)
                          [] OTHER -> e.lcb,
                     payload |-> n]]

StreamReplies == [kind : {"error", "full", "keep"}, lcb : {0}, url : {""}]

-----------------------------------------------------------------------------
(* CurlResumableUploadSession.  A world w holds the objects a call can     *)
(* touch: w.sb the streambuf, w.se the session, w.hv the validator,        *)
(* w.calls the requests sent, w.crashed.                                   *)

Update_forgetsErrorCheck(se, result) ==
    [se EXCEPT
       !.next_expected_ =
           IF result.value.last_committed_byte = 0
           THEN 0 ELSE result.value.last_committed_byte + 1,
       !.session_id_ =
           IF result.value.upload_session_url # ""
           THEN result.value.upload_session_url ELSE @]

Update_countsFromOne(se, result) ==
    IF ~result.ok
    THEN se
    ELSE [se EXCEPT
            !.next_expected_ = result.value.last_committed_byte + 1,
            !.session_id_ =
                IF result.value.upload_session_url # ""
                THEN result.value.upload_session_url ELSE @]

Update_takesEmptyUrl(se, result) ==
    IF ~result.ok
    THEN se
    ELSE [se EXCEPT
            !.next_expected_ =
                IF result.value.last_committed_byte = 0
                THEN 0 ELSE result.value.last_committed_byte + 1,
            !.session_id_ = result.value.upload_session_url]

Update(se, result) ==
    IF ~result.ok
    THEN se
    ELSE [se EXCEPT
            !.next_expected_ =
                IF result.value.last_committed_byte = 0
                THEN 0 ELSE result.value.last_committed_byte + 1,
            !.session_id_ =
                IF result.value.upload_session_url # ""
                THEN result.value.upload_session_url ELSE @]

\* history: one entry per request sent, with the session as it was before
CallRecord(op, request, result, before) ==
    [op |-> op, request |-> request, ok |-> result.ok,
     response |-> result.value, before |-> before]

SessionUploadChunk(w, buffer, e) ==
    LET request == UploadChunkRequest(w.se.session_id_, w.se.next_expected_,
                                      buffer, 0, FALSE)
        result == ClientReply(request.range_begin, Size(buffer), e,
                              Len(w.calls) + 1)
    IN [w |-> [w EXCEPT !.se = Update(w.se, result),
                        !.calls = Append(@, CallRecord("UploadChunk", request, result, w.se))],
        result |-> result]

SessionUploadFinalChunk(w, buffer, upload_size, e) ==
    LET request == UploadChunkRequest(w.se.session_id_, w.se.next_expected_,
                                      buffer, upload_size, TRUE)
        result == ClientReply(request.range_begin, Size(buffer), e,
                              Len(w.calls) + 1)
    IN [w |-> [w EXCEPT !.se = Update(w.se, result),
                        !.calls = Append(@, CallRecord("UploadFinalChunk", request, result, w.se))],
        result |-> result]

SessionResetSession(w, e) ==
    LET request == QueryResumableUploadRequest(w.se.session_id_)
        result == ClientReply(w.se.next_expected_, 0, e, Len(w.calls) + 1)
    IN [w |-> [w EXCEPT !.se = Update(w.se, result),
                        !.calls = Append(@, CallRecord("ResetSession", request, result, w.se))],
        result |-> result]

next_expected_byte(se) == se.next_expected_

session_id(se) == se.session_id_

-----------------------------------------------------------------------------
(* HashValidator, as the stream uses it.  hv.fed: the bytes of all Update  *)
(* calls, one after the other; hv.updates: the Update calls, each with its *)
(* bytes and the number of session calls made before it; hv.finished: the  *)
(* number of Finish calls; hv.late: Update, ProcessHeader or               *)
(* ProcessMetadata was called after Finish.                                *)

(* hv.headers: one entry for every ProcessHeader or ProcessMetadata call   *)
(* that brought a digest, with the number of Update calls made before it.  *)
(* hv.received: the digest the server advertised, if any.  A digest is     *)
(* kept as the bytes it is the digest of (no two contents share a digest). *)

NoDigest == [set |-> FALSE, of |-> <<>>]

DigestOf(bytes) == [set |-> TRUE, of |-> bytes]

NewHashValidator ==
    [fed |-> <<>>, updates |-> <<>>, finished |-> 0, late |-> FALSE,
     received |-> NoDigest, headers |-> <<>>]

HashUpdate_feedsTwice(hv, bytes, at) ==
    [hv EXCEPT !.fed = Cat(Cat(@, bytes), bytes),
               !.updates = Append(Append(@, [bytes |-> bytes, at |-> at]),
                                  [bytes |-> bytes, at |-> at]),
               !.late = @ \/ hv.finished > 0]

HashUpdate_skipsEmpty(hv, bytes, at) ==
    IF bytes = <<>> THEN hv
    ELSE [hv EXCEPT !.fed = Cat(@, bytes),
                    !.updates = Append(@, [bytes |-> bytes, at |-> at]),
                    !.late = @ \/ hv.finished > 0]

\* hash_validator_->Update(data, size), after at session calls
HashUpdate(hv, bytes, at) ==
    [hv EXCEPT !.fed = Cat(@, bytes),
               !.updates = Append(@, [bytes |-> bytes, at |-> at]),
               !.late = @ \/ hv.finished > 0]

\* hash_validator_->ProcessHeader(key, value) for a header that carries a
\* digest, hash_validator_->ProcessMetadata(meta) for metadata that does
ProcessDigest(hv, digest) ==
    [hv EXCEPT !.received = digest, !.late = @ \/ hv.finished > 0,
               !.headers = Append(@, [updates_before |-> Len(hv.updates)])]

\* hash_validator_->ProcessMetadata(meta), meta with a digest or without
ProcessMetadata(hv, meta) ==
    IF meta.set THEN ProcessDigest(hv, meta)
    ELSE [hv EXCEPT !.late = @ \/ hv.finished > 0]

\* std::move(*hash_validator_).Finish().  The first call compares; what a
\* consumed validator answers is not specified: again stands for it.
Finish(hv, again) ==
    [hv |-> [hv EXCEPT !.finished = @ + 1],
     result |-> [is_mismatch |->
                    IF hv.finished = 0
                    THEN hv.received.set /\ hv.received.of # hv.fed
                    ELSE again]]

-----------------------------------------------------------------------------
(* CurlResumableStreambuf.                                                 *)
(* sb.store is the storage of current_ios_buffer_ (its first sb.size bytes *)
(* are the string, what follows is what an earlier, longer string left     *)
(* there); sb.cap is the capacity the string is sure to have; pptr and     *)
(* epptr are offsets from pbase; pbase_valid says that pbase still points  *)
(* at the string's storage.                                                *)

NoHttpResponse == [status_code |-> 0, payload |-> 0]

HttpResponse(status_code, payload) ==
    [status_code |-> status_code, payload |-> payload]

StatusOK(value) == [ok |-> TRUE, status |-> "OK", value |-> value]

StatusError(status) == [ok |-> FALSE, status |-> status, value |-> NoHttpResponse]

NewStreambuf(max_buffer_size) ==
    [upload_session_  |-> TRUE,
     max_buffer_size_ |-> AsInt(RoundUpToQuantum(SizeT(max_buffer_size))),
     store            |-> <<>>,
     size             |-> 0,
     cap              |-> AsInt(RoundUpToQuantum(SizeT(max_buffer_size))),
     pbase_valid      |-> TRUE,
     pptr             |-> 0,
     epptr            |-> 0,
     last_response_   |-> HttpResponse(400, 0),
     hash_validator_result_ |-> [is_mismatch |-> FALSE]]

\* ValidateHash(meta), lines 41-45
ValidateHash(w, meta, again) ==
    LET fin == Finish(ProcessMetadata(w.hv, meta), again)
    IN [w |-> [w EXCEPT !.hv = fin.hv,
                        !.sb.hash_validator_result_ = fin.result],
        result |-> ~fin.result.is_mismatch]

IsOpen_untilDestroyed(sb) == TRUE

IsOpen(sb) == sb.upload_session_

current_ios_buffer_(sb) == Prefix(sb.store, sb.size)

\* the process killed by a read through a pointer that is not valid
Died(w) ==
    [w |-> [w EXCEPT !.crashed = TRUE], status |-> StatusError("SIGSEGV")]

\* a read of the bytes at pbase + from .. pbase + to.  Once the string has
\* moved, pbase points at storage that was given back: the read finds
\* unspecified bytes there, or it faults and the process dies (segv says
\* which).
PutArea(sb, from, to, segv) ==
    IF to <= from THEN [crashed |-> FALSE, bytes |-> <<>>]
    ELSE IF sb.pbase_valid
    THEN [crashed |-> FALSE, bytes |-> Range(sb.store, from, to)]
    ELSE [crashed |-> segv, bytes |-> Junk(to - from)]

\* the bytes of the put area, for an observer that reads without faulting
Pending(sb) == PutArea(sb, 0, sb.pptr, FALSE).bytes

\* the storage after the string's length is set to n: std::string writes its
\* terminator on byte n, the bytes after it stay as they were
Terminated(store, n) ==
    Cat(Cat(Prefix(store, n), Nul(IF Size(store) > n THEN 1 ELSE 0)),
        Suffix(store, n + 1))

\* current_ios_buffer_.assign(pbase(), pbase() + n): the source is read
\* through pbase, as in PutArea
AssignHead(sb, n, segv) ==
    IF sb.pbase_valid
    THEN [crashed |-> FALSE,
          sb |-> [sb EXCEPT !.store = Terminated(sb.store, n), !.size = n]]
    ELSE [crashed |-> n > 0 /\ segv,
          sb |-> [sb EXCEPT !.store = Junk(n), !.size = n]]

\* current_ios_buffer_.resize(n): cut, or fill with NUL bytes
Resize(sb, n) ==
    IF n <= sb.size
    THEN [sb EXCEPT !.store = Terminated(sb.store, n), !.size = n]
    ELSE [sb EXCEPT
            !.store = Terminated(Cat(Cat(Prefix(sb.store, sb.size),
                                         Nul(n - sb.size)),
                                     Suffix(sb.store, n)), n),
            !.size = n,
            !.cap = Max(@, n)]

\* chunk_count * kChunkSizeQuantum
ChunkSize(actual_size) ==
    (actual_size \div kChunkSizeQuantum) * kChunkSizeQuantum

UploadSize_pendingOnly(next_expected, actual_size) == actual_size

UploadSize(next_expected, actual_size) == next_expected + actual_size

Flush_withoutThreshold(w, e, segv) ==
    IF ~IsOpen(w.sb)
    THEN [w |-> w, status |-> StatusOK(w.sb.last_response_)]
    ELSE
    LET actual_size == w.sb.pptr IN
    LET chunk_size == ChunkSize(actual_size)
        tail == PutArea(w.sb, chunk_size, actual_size, segv)
        head == AssignHead(w.sb, chunk_size, segv)
    IN  IF tail.crashed \/ head.crashed THEN Died(w) ELSE
    LET not_sent == tail.bytes
        sb1 == head.sb
        buffer == current_ios_buffer_(sb1)
        w1 == [w EXCEPT !.sb = sb1, !.hv = HashUpdate(@, buffer, Len(w.calls))]
        up == SessionUploadChunk(w1, buffer, e)
    IN  IF ~up.result.ok
        THEN [w |-> up.w, status |-> StatusError(up.result.status)]
        ELSE
        LET last == HttpResponse(200, up.result.value.payload)
            sb2 == [sb1 EXCEPT
                      !.store = not_sent,
                      !.size = Size(not_sent),
                      !.cap = Max(sb1.max_buffer_size_, Size(not_sent)),
                      !.pbase_valid = TRUE,
                      !.epptr = Size(not_sent),
                      !.pptr = Size(not_sent),
                      !.last_response_ = last]
        IN [w |-> [up.w EXCEPT !.sb = sb2], status |-> StatusOK(last)]

Flush_keepsResponse(w, e, segv) ==
    IF ~IsOpen(w.sb)
    THEN [w |-> w, status |-> StatusOK(w.sb.last_response_)]
    ELSE
    LET actual_size == w.sb.pptr IN
    IF actual_size < w.sb.max_buffer_size_
    THEN [w |-> w, status |-> StatusOK(w.sb.last_response_)]
    ELSE
    LET chunk_size == ChunkSize(actual_size)
        tail == PutArea(w.sb, chunk_size, actual_size, segv)
        head == AssignHead(w.sb, chunk_size, segv)
    IN  IF tail.crashed \/ head.crashed THEN Died(w) ELSE
    LET not_sent == tail.bytes
        sb1 == head.sb
        buffer == current_ios_buffer_(sb1)
        w1 == [w EXCEPT !.sb = sb1, !.hv = HashUpdate(@, buffer, Len(w.calls))]
        up == SessionUploadChunk(w1, buffer, e)
    IN  IF ~up.result.ok
        THEN [w |-> up.w, status |-> StatusError(up.result.status)]
        ELSE
        LET last == HttpResponse(200, up.result.value.payload)
            sb2 == [sb1 EXCEPT
                      !.store = not_sent,
                      !.size = Size(not_sent),
                      !.cap = Max(sb1.max_buffer_size_, Size(not_sent)),
                      !.pbase_valid = TRUE,
                      !.epptr = Size(not_sent),
                      !.pptr = Size(not_sent)]
        IN [w |-> [up.w EXCEPT !.sb = sb2], status |-> StatusOK(last)]

Flush(w, e, segv) ==
    IF ~IsOpen(w.sb)
    THEN [w |-> w, status |-> StatusOK(w.sb.last_response_)]
    ELSE
    LET actual_size == w.sb.pptr IN
    IF actual_size < w.sb.max_buffer_size_
    THEN [w |-> w, status |-> StatusOK(w.sb.last_response_)]
    ELSE
    LET chunk_size == ChunkSize(actual_size)
        tail == PutArea(w.sb, chunk_size, actual_size, segv)
        head == AssignHead(w.sb, chunk_size, segv)
    IN  IF tail.crashed \/ head.crashed THEN Died(w) ELSE
    LET not_sent == tail.bytes
        sb1 == head.sb
        buffer == current_ios_buffer_(sb1)
        w1 == [w EXCEPT !.sb = sb1, !.hv = HashUpdate(@, buffer, Len(w.calls))]
        up == SessionUploadChunk(w1, buffer, e)
    IN  IF ~up.result.ok
        THEN [w |-> up.w, status |-> StatusError(up.result.status)]
        ELSE
        LET last == HttpResponse(200, up.result.value.payload)
            sb2 == [sb1 EXCEPT
                      !.store = not_sent,
                      !.size = Size(not_sent),
                      !.cap = Max(sb1.max_buffer_size_, Size(not_sent)),
                      !.pbase_valid = TRUE,
                      !.epptr = Size(not_sent),
                      !.pptr = Size(not_sent),
                      !.last_response_ = last]
        IN [w |-> [up.w EXCEPT !.sb = sb2], status |-> StatusOK(last)]

FlushFinal(w, e) ==
    IF ~w.sb.upload_session_
    THEN \* upload_session_->next_expected_byte() through a null pointer
         [w |-> [w EXCEPT !.crashed = TRUE], status |-> StatusError("SIGSEGV")]
    ELSE
    LET actual_size == w.sb.pptr
        upload_size == UploadSize(next_expected_byte(w.se), actual_size)
        sb1 == Resize(w.sb, actual_size)
        buffer == current_ios_buffer_(sb1)
        w1 == [w EXCEPT !.sb = sb1, !.hv = HashUpdate(@, buffer, Len(w.calls))]
        up == SessionUploadFinalChunk(w1, buffer, upload_size, e)
    IN  IF ~up.result.ok
        THEN [w |-> up.w, status |-> StatusError(up.result.status)]
        ELSE
        LET last == HttpResponse(200, up.result.value.payload)
            sb2 == Resize(sb1, 1)
            sb3 == [sb2 EXCEPT
                      !.pbase_valid = TRUE,
                      !.epptr = 0,
                      !.pptr = 0,
                      !.upload_session_ = FALSE,
                      !.last_response_ = last]
        IN [w |-> [up.w EXCEPT !.sb = sb3], status |-> StatusOK(last)]

DoClose(w, e) == FlushFinal(w, e)

\* current_ios_buffer_.push_back(ch); pbump(1).  bytes: the byte (in the
\* loop below: the bytes of as many calls).  realloc: whether the string
\* moves when it is at its guaranteed capacity, which leaves pbase behind.
PushBack(sb, bytes, realloc) ==
    LET moves == sb.size + Size(bytes) > sb.cap /\ realloc
        size == sb.size + Size(bytes)
    IN [sb EXCEPT
          !.store = IF moves
                    THEN Cat(Prefix(sb.store, sb.size), bytes)
                    ELSE Terminated(Cat(Cat(Prefix(sb.store, sb.size), bytes),
                                        Suffix(sb.store, size)),
                                    size),
          !.size = size,
          !.cap = Max(@, size),
          !.pbase_valid = @ /\ ~moves,
          !.pptr = @ + Size(bytes)]

\* overflow(ch), ch never EOF when it comes from sputc
overflow(w, ch, e, realloc, segv) ==
    IF ~IsOpen(w.sb)
    THEN [w |-> w, ok |-> FALSE]
    ELSE
    LET fl == Flush(w, e, segv) IN
    IF ~fl.status.ok
    THEN [w |-> fl.w, ok |-> FALSE]
    ELSE [w |-> [fl.w EXCEPT !.sb = PushBack(@, ch, realloc)], ok |-> TRUE]

\* std::streambuf::sputc: store in the put area when there is room, else overflow
sputc(w, ch, e, realloc, segv) ==
    IF w.sb.pptr < w.sb.epptr /\ ~w.sb.pbase_valid /\ segv
    THEN [w |-> Died(w).w, ok |-> FALSE]
    ELSE IF w.sb.pptr < w.sb.epptr
    THEN [w |-> [w EXCEPT
                   !.sb.store = Cat(Cat(Prefix(@, w.sb.pptr), ch),
                                    Suffix(@, w.sb.pptr + 1)),
                   !.sb.pptr = @ + 1],
          ok |-> TRUE]
    ELSE overflow(w, ch, e, realloc, segv)

sync(w, e, segv) ==
    LET fl == Flush(w, e, segv) IN [w |-> fl.w, ok |-> fl.status.ok]

\* xsputn(s, count): the string becomes [pbase, pptr) followed by s.  When the
\* string is shorter than the put area (a failed Flush cut it), the source of
\* assign lies in the string's own storage past its end: the copy reads on
\* past the put area, beyond what the string has allocated, so that those
\* bytes come out unspecified, or the read faults and the process dies.
xsputn(w, s, e, segv) ==
    IF ~IsOpen(w.sb)
    THEN [w |-> w, ok |-> FALSE]
    ELSE
    LET sb == w.sb
        own == IF sb.size < sb.pptr THEN sb.size ELSE sb.pptr
        read == PutArea(sb, 0, IF sb.pbase_valid THEN own ELSE sb.pptr, segv)
        past == sb.pbase_valid /\ sb.size < sb.pptr
    IN  IF read.crashed \/ (past /\ segv)
        THEN [w |-> Died(w).w, ok |-> FALSE]
        ELSE
    LET kept == IF sb.pbase_valid
                THEN Cat(read.bytes, Junk(sb.pptr - sb.size))
                ELSE read.bytes
        all == Cat(kept, s)
        sb1 == [sb EXCEPT
                  !.store = all,
                  !.size = Size(all),
                  !.cap = Max(@, Size(all)),
                  !.pbase_valid = TRUE,
                  !.epptr = Size(all),
                  !.pptr = Size(all)]
        fl == Flush([w EXCEPT !.sb = sb1], e, segv)
    IN [w |-> fl.w, ok |-> fl.status.ok]

\* ObjectWriteStreambuf::Close: pubsync(), its result dropped, then DoClose()
Close(w, e1, e2, segv) ==
    LET s1 == sync(w, e1, segv) IN
    IF s1.w.crashed THEN Died(s1.w) ELSE DoClose(s1.w, e2)

Min(a, b) == IF a <= b THEN a ELSE b

\* the sputc calls after this one that are sure to append their byte and do
\* nothing else, of at most n: the stream is open, Flush finds the put area
\* below the threshold and returns, and push_back stays within the capacity
\* the string has reserved
QuietRun(sb, n) ==
    IF IsOpen(sb) /\ sb.pbase_valid /\ sb.pptr >= sb.epptr
    THEN Max(0, Min(n, Min(sb.max_buffer_size_ - sb.pptr, sb.cap - sb.size)))
    ELSE 0

\* for (auto const& c : payload) streambuf.sputc(c), the bytes numbered
\* first .. first + n - 1, every session call answered e.  One sputc at a
\* time; the calls of a quiet run are taken together.  moves: the bytes whose
\* push_back moves the string when it is past its reserved capacity; dies:
\* the byte whose sputc faults when it reads through a stale pbase (-1: none).
RECURSIVE SputcLoop(_, _, _, _, _, _)
SputcLoop(w, first, n, e, moves, dies) ==
    IF n = 0 \/ w.crashed THEN w
    ELSE
    LET r == sputc(w, AppBytes(first, 1), e, first \in moves, first = dies)
        quiet == QuietRun(r.w.sb, n - 1)
        w1 == [r.w EXCEPT !.sb = PushBack(@, AppBytes(first + 1, quiet), FALSE)]
    IN SputcLoop(w1, first + 1 + quiet, n - 1 - quiet, e, moves, dies)

-----------------------------------------------------------------------------
(* ObjectReadSource: the download behind the read stream.  src.body: the   *)
(* bytes the transfer has to deliver; src.advertised: the digest the       *)
(* server puts in its headers.  A Read call fails, or answers with a       *)
(* status code, the next count bytes of the body (as the server has them,  *)
(* or altered on the way) left in the caller's buffer, and possibly a      *)
(* header carrying the digest; the source may be closed after the call.    *)

ReadLen == 4
ObjectLen == 2 * ReadLen

NewSource(open, body, advertised) ==
    [open |-> open, reads |-> 0, served |-> 0, body |-> body,
     advertised |-> advertised]

ReadReplies ==
    [kind : {"error"}, status_code : {0}, count : {0}, digest : {FALSE},
     intact : {TRUE}, closes : BOOLEAN]
    \cup [kind : {"response"}, status_code : {200, 404}, count : {0},
          digest : BOOLEAN, intact : {TRUE}, closes : BOOLEAN]
    \cup [kind : {"response"}, status_code : {200, 404}, count : {ReadLen},
          digest : BOOLEAN, intact : BOOLEAN, closes : BOOLEAN]

\* source_->Read(buffer)
SourceRead(src, reply) ==
    [src |-> [src EXCEPT !.open = ~reply.closes,
                         !.reads = @ + 1,
                         !.served = Min(Size(src.body), @ + reply.count)],
     ok |-> reply.kind = "response",
     status |-> IF reply.kind = "response" THEN "OK" ELSE ErrorStatus,
     status_code |-> reply.status_code,
     digest |-> reply.digest,
     advertised |-> src.advertised,
     buffer |-> IF reply.intact
                THEN Range(src.body, src.served, src.served + reply.count)
                ELSE Junk(reply.count)]

\* AsStatus(response) for a response with status_code >= 300
AsStatus(status_code) == IF status_code >= 300 THEN "HTTP_ERROR" ELSE "OK"

-----------------------------------------------------------------------------
(* ObjectReadStreambuf.  gptr and egptr are offsets from eback, which is   *)
(* the start of current_ios_buffer_.  rd.exceptions: the build has         *)
(* GOOGLE_CLOUD_CPP_HAVE_EXCEPTIONS.  rd.last: history, what the last      *)
(* operation did (last.buffer: what Read left in the buffer).              *)
(* rd.delivered: history, the bytes the application took out of the get    *)
(* area, in order.  rd.region: what eback, gptr and egptr point at:        *)
(* "null" before any setg, "valid" when setg put them on the buffer as it  *)
(* is, "stale" when Read rewrote the buffer after the last setg.           *)

NoReadResult ==
    [op |-> "none", value |-> "none", thrown |-> "none", read |-> FALSE,
     response |-> 0, buffer |-> <<>>, finished |-> FALSE, mismatch |-> FALSE,
     status_before |-> "OK", fed_before |-> <<>>,
     after_error |-> FALSE, after_eof |-> FALSE, open_before |-> TRUE,
     digest |-> FALSE, headers_before |-> 0, closed |-> "none"]

\* ObjectReadStreambuf(request, source) and ObjectReadStreambuf(request, status)
NewObjectReadStreambuf(exceptions, status, body, advertised) ==
    [source_ |-> NewSource(status = "OK", body, advertised),
     hash_validator_ |-> NewHashValidator,
     hash_validator_result_ |-> [is_mismatch |-> FALSE],
     status_ |-> status,
     current_ios_buffer_ |-> <<>>,
     gptr |-> 0,
     egptr |-> 0,
     region |-> "null",
     headers_ |-> <<>>,
     exceptions |-> exceptions,
     failed |-> FALSE,
     eof |-> FALSE,
     nops |-> 0,
     delivered |-> <<>>,
     last |-> NoReadResult]

ReadIsOpen(rd) == rd.source_.open

SetEmptyRegion(rd) ==
    [rd EXCEPT !.current_ios_buffer_ = Nul(1), !.gptr = 1, !.egptr = 1,
               !.region = "valid"]

\* Peek after source_->Read succeeded (lines 60-79)
PeekResponse_checksStatusLast(rd, rr) ==
    LET hv1 == IF rr.digest
               THEN ProcessDigest(rd.hash_validator_, rr.advertised)
               ELSE rd.hash_validator_
        rd1 == [rd EXCEPT !.hash_validator_ = hv1,
                          !.headers_ = IF rr.digest
                                       THEN Append(@, rr.advertised) ELSE @]
    IN  IF rr.buffer # <<>>
        THEN [rd |-> [rd1 EXCEPT
                        !.hash_validator_ = HashUpdate(@, rr.buffer, rd.source_.reads),
                        !.gptr = 0,
                        !.egptr = Size(rr.buffer),
                        !.region = "valid"],
              ok |-> rr.status_code < 300,
              status |-> AsStatus(rr.status_code), value |-> "char"]
        ELSE IF rr.status_code >= 300
        THEN [rd |-> rd1, ok |-> FALSE, status |-> AsStatus(rr.status_code),
              value |-> "none"]
        ELSE [rd |-> SetEmptyRegion(rd1), ok |-> TRUE, status |-> "OK",
              value |-> "eof"]

PeekResponse_skipsErrorHeaders(rd, rr) ==
    IF rr.status_code >= 300
    THEN [rd |-> rd, ok |-> FALSE, status |-> AsStatus(rr.status_code),
          value |-> "none"]
    ELSE
    LET hv1 == IF rr.digest
               THEN ProcessDigest(rd.hash_validator_, rr.advertised)
               ELSE rd.hash_validator_
        rd1 == [rd EXCEPT !.hash_validator_ = hv1,
                          !.headers_ = IF rr.digest
                                       THEN Append(@, rr.advertised) ELSE @]
    IN  IF rr.buffer # <<>>
        THEN [rd |-> [rd1 EXCEPT
                        !.hash_validator_ = HashUpdate(@, rr.buffer, rd.source_.reads),
                        !.gptr = 0,
                        !.egptr = Size(rr.buffer),
                        !.region = "valid"],
              ok |-> TRUE, status |-> "OK", value |-> "char"]
        ELSE [rd |-> SetEmptyRegion(rd1), ok |-> TRUE, status |-> "OK",
              value |-> "eof"]

PeekResponse(rd, rr) ==
    LET hv1 == IF rr.digest
               THEN ProcessDigest(rd.hash_validator_, rr.advertised)
               ELSE rd.hash_validator_
        rd1 == [rd EXCEPT !.hash_validator_ = hv1,
                          !.headers_ = IF rr.digest
                                       THEN Append(@, rr.advertised) ELSE @]
    IN  IF rr.status_code >= 300
        THEN [rd |-> rd1, ok |-> FALSE, status |-> AsStatus(rr.status_code),
              value |-> "none"]
        ELSE IF rr.buffer # <<>>
        THEN [rd |-> [rd1 EXCEPT
                        !.hash_validator_ = HashUpdate(@, rr.buffer, rd.source_.reads),
                        !.gptr = 0,
                        !.egptr = Size(rr.buffer),
                        !.region = "valid"],
              ok |-> TRUE, status |-> "OK", value |-> "char"]
        ELSE [rd |-> SetEmptyRegion(rd1), ok |-> TRUE, status |-> "OK",
              value |-> "eof"]

Peek(rd, reply) ==
    IF ~ReadIsOpen(rd)
    THEN [rd |-> SetEmptyRegion(rd), ok |-> TRUE, status |-> "OK", value |-> "eof"]
    ELSE
    LET rr == SourceRead(rd.source_, reply)
        rd1 == [rd EXCEPT !.source_ = rr.src,
                          !.current_ios_buffer_ = rr.buffer,
                          !.region = IF @ = "null" THEN "null" ELSE "stale",
                          !.last.read = TRUE,
                          !.last.response = rr.status_code,
                          !.last.buffer = rr.buffer,
                          !.last.digest = rr.ok /\ rr.digest]
    IN  IF ~rr.ok
        THEN [rd |-> rd1, ok |-> FALSE, status |-> rr.status, value |-> "none"]
        ELSE PeekResponse(rd1, rr)

ReportError_throwsOnly(rd, status) ==
    IF status = "OK"
    THEN [rd EXCEPT !.last.value = "eof"]
    ELSE [rd EXCEPT !.status_ = IF rd.exceptions THEN @ ELSE status,
                    !.last.value = IF rd.exceptions THEN "none" ELSE "eof",
                    !.last.thrown = IF rd.exceptions THEN "Status" ELSE "none"]

\* ReportError(status), status never OK where it is called from a failure
ReportError(rd, status) ==
    IF status = "OK"
    THEN [rd EXCEPT !.last.value = "eof"]
    ELSE [rd EXCEPT !.status_ = status,
                    !.last.value = IF rd.exceptions THEN "none" ELSE "eof",
                    !.last.thrown = IF rd.exceptions THEN "Status" ELSE "none"]

\* underflow lines 88-106: end of stream, the validator is finished
ValidateAtEof_ignoresMismatch(rd, again) ==
    LET fin == Finish(rd.hash_validator_, again)
    IN [rd EXCEPT !.hash_validator_ = fin.hv,
                  !.hash_validator_result_ = fin.result,
                  !.eof = TRUE,
                  !.last.finished = TRUE,
                  !.last.mismatch = fin.result.is_mismatch,
                  !.last.value = "eof"]

ValidateAtEof(rd, again) ==
    LET fin == Finish(rd.hash_validator_, again)
        rd1 == [rd EXCEPT !.hash_validator_ = fin.hv,
                          !.hash_validator_result_ = fin.result,
                          !.eof = TRUE,
                          !.last.finished = TRUE,
                          !.last.mismatch = fin.result.is_mismatch,
                          !.last.value = "eof"]
    IN  IF ~fin.result.is_mismatch THEN rd1
        ELSE IF rd.exceptions
        THEN [rd1 EXCEPT !.last.value = "none",
                         !.last.thrown = "HashMismatchError"]
        ELSE [rd1 EXCEPT !.status_ = "kDataLoss"]

\* the history entry of an operation that starts now
Starting(rd, op) ==
    [rd EXCEPT !.nops = @ + 1,
               !.last = [NoReadResult EXCEPT
                           !.op = op,
                           !.status_before = rd.status_,
                           !.fed_before = rd.hash_validator_.fed,
                           !.after_error = rd.failed,
                           !.after_eof = rd.eof,
                           !.open_before = ReadIsOpen(rd),
                           !.headers_before = Len(rd.hash_validator_.headers)]]

underflow(rd, reply, again) ==
    LET next_char == Peek(Starting(rd, "underflow"), reply)
    IN  IF ~next_char.ok
        THEN [ReportError(next_char.rd, next_char.status) EXCEPT !.failed = TRUE]
        ELSE IF next_char.value = "eof"
        THEN ValidateAtEof(next_char.rd, again)
        ELSE [next_char.rd EXCEPT !.last.value = "char"]

\* ObjectReadStreambuf::Close; ok: what source_->Close() answers
ReadClose(rd, ok) ==
    LET rd1 == [Starting(rd, "Close") EXCEPT
                  !.source_.open = FALSE,
                  !.last.closed = IF ok THEN "OK" ELSE ErrorStatus]
    IN IF ok THEN rd1 ELSE ReportError(rd1, ErrorStatus)

\* sgetn of all the bytes of the get area: gptr reaches egptr
Drain(rd) ==
    [Starting(rd, "sgetn") EXCEPT
        !.gptr = rd.egptr,
        !.delivered = Cat(@, Range(rd.current_ios_buffer_, rd.gptr, rd.egptr)),
        !.last.value = "char"]

-----------------------------------------------------------------------------
(* MutationBatcher (mutation_batcher.cc).  b.mu_: the thread that holds    *)
(* the mutex, 0 when it is free.  b.muts: every mutation handed to         *)
(* AsyncApply, by number, with the callbacks invoked for it so far.        *)
(* b.flushed: the Batch objects handed to StreamingAsyncBulkApply, each    *)
(* with the position of the completion-queue callback running for it.      *)
(* A batch's retried: history, an attempt finished after the first one.    *)
(* A callback is at "lock" when it is about to take mu_, at "locked" while *)
(* it holds it and at "unlocked" once it has released it; completed_size   *)
(* and admission_callbacks are its local variables.  An application thread *)
(* past its unlock is at "invalid" or at "admitted", the callbacks it has  *)
(* yet to run.                                                             *)
(* b.apps: the application threads, each with its position in AsyncApply.  *)
(* Application thread t is thread t; the callbacks of the k-th flushed     *)
(* batch run on thread CqThread(k).                                        *)

MaxMutations == 2

AppThreads == {1, 2}

CqThread(k) == 2 + k

\* MutationBatcher::Options with its four limits set
Options(max_mutations_per_batch, max_size_per_batch, max_batches, max_oustanding_size) ==
    [max_mutations_per_batch |-> max_mutations_per_batch,
     max_size_per_batch      |-> max_size_per_batch,
     max_batches             |-> max_batches,
     max_oustanding_size     |-> max_oustanding_size]

\* the cached figures of a PendingSingleRowMutation
PendingSingleRowMutation(num_mutations, request_size) ==
    [num_mutations |-> num_mutations, request_size |-> request_size,
     callbacks |-> <<>>]

\* std::make_shared<Batch>()
NewBatch ==
    [requests_size |-> 0, num_mutations |-> 0, requests |-> <<>>,
     mutation_data |-> {}, last_idx |-> 0, attempt_finished |-> FALSE,
     pc |-> "idle", event |-> "none", completed_size |-> 0,
     admission_callbacks |-> <<>>, retried |-> FALSE]

IdleThread == [pc |-> "idle", pending |-> 0]

NewMutationBatcher(options) ==
    [options_ |-> options,
     mu_ |-> 0,
     pending_mutations_ |-> <<>>,
     cur_batch_ |-> NewBatch,
     num_outstanding_batches_ |-> 0,
     oustanding_size_ |-> 0,
     muts |-> <<>>,
     flushed |-> <<>>,
     apps |-> [t \in AppThreads |-> IdleThread]]

\* a user callback runs on thread t: kind says which, status what it is told
Invoke(b, t, id, kind, status) ==
    [b EXCEPT !.muts[id].callbacks =
        Append(@, [kind |-> kind, status |-> status,
                   thread |-> IF t \in AppThreads THEN "application"
                              ELSE "completion queue",
                   mu_held |-> b.mu_ = t])]

IsValid_withoutSizeCheck(b, mut) ==
    IF mut.num_mutations > b.options_.max_mutations_per_batch
    THEN "INVALID_ARGUMENT"
    ELSE IF mut.num_mutations = 0
    THEN "INVALID_ARGUMENT"
    ELSE "OK"

IsValid(b, mut) ==
    IF mut.num_mutations > b.options_.max_mutations_per_batch
    THEN "INVALID_ARGUMENT"
    ELSE IF mut.num_mutations = 0
    THEN "INVALID_ARGUMENT"
    ELSE IF mut.request_size > b.options_.max_size_per_batch
    THEN "INVALID_ARGUMENT"
    ELSE "OK"

HasSpaceFor_ignoresOutstanding(b, mut) ==
    /\ b.cur_batch_.requests_size + mut.request_size
          <= b.options_.max_size_per_batch
    /\ b.cur_batch_.num_mutations + mut.num_mutations
          <= b.options_.max_mutations_per_batch

HasSpaceFor(b, mut) ==
    /\ b.oustanding_size_ + mut.request_size <= b.options_.max_oustanding_size
    /\ b.cur_batch_.requests_size + mut.request_size
          <= b.options_.max_size_per_batch
    /\ b.cur_batch_.num_mutations + mut.num_mutations
          <= b.options_.max_mutations_per_batch

\* Admit(mut), mut the mutation number id
Admit(b, id) ==
    LET mut == b.muts[id] IN
    [b EXCEPT
       !.oustanding_size_ = @ + mut.request_size,
       !.cur_batch_.requests_size = @ + mut.request_size,
       !.cur_batch_.num_mutations = @ + mut.num_mutations,
       !.cur_batch_.requests = Append(@, id),
       !.cur_batch_.mutation_data = @ \cup {b.cur_batch_.last_idx},
       !.cur_batch_.last_idx = @ + 1]

FlushIfPossible_keepsSlotFree(b) ==
    IF b.cur_batch_.num_mutations > 0
         /\ b.num_outstanding_batches_ + 1 < b.options_.max_batches
    THEN [b |-> [b EXCEPT !.num_outstanding_batches_ = @ + 1,
                          !.flushed = Append(@, b.cur_batch_),
                          !.cur_batch_ = NewBatch],
          result |-> TRUE]
    ELSE [b |-> b, result |-> FALSE]

FlushIfPossible(b) ==
    IF b.cur_batch_.num_mutations > 0
         /\ b.num_outstanding_batches_ < b.options_.max_batches
    THEN [b |-> [b EXCEPT !.num_outstanding_batches_ = @ + 1,
                          !.flushed = Append(@, b.cur_batch_),
                          !.cur_batch_ = NewBatch],
          result |-> TRUE]
    ELSE [b |-> b, result |-> FALSE]

\* TryAdmit, the inner loop: the front of the queue while it fits
RECURSIVE AdmitWhileSpace(_, _)
AdmitWhileSpace(b, admission_callbacks) ==
    IF b.pending_mutations_ # <<>>
         /\ HasSpaceFor(b, b.muts[Head(b.pending_mutations_)])
    THEN AdmitWhileSpace(
             [Admit(b, Head(b.pending_mutations_)) EXCEPT
                 !.pending_mutations_ = Tail(@)],
             Append(admission_callbacks, Head(b.pending_mutations_)))
    ELSE [b |-> b, admission_callbacks |-> admission_callbacks]

\* TryAdmit, the outer loop: again after every flush
RECURSIVE AdmitAndFlush(_, _)
AdmitAndFlush(b, admission_callbacks) ==
    LET admitted == AdmitWhileSpace(b, admission_callbacks)
        flush == FlushIfPossible(admitted.b)
    IN IF flush.result
       THEN AdmitAndFlush(flush.b, admitted.admission_callbacks)
       ELSE [b |-> flush.b, admission_callbacks |-> admitted.admission_callbacks]

\* TryAdmit, lines 347-350: every deferred admission callback, on thread t
RECURSIVE FireAdmissions(_, _, _)
FireAdmissions(b, t, admission_callbacks) ==
    IF admission_callbacks = <<>> THEN b
    ELSE FireAdmissions(Invoke(b, t, Head(admission_callbacks), "admission", "OK"),
                        t, Tail(admission_callbacks))

\* std::unique_lock<std::mutex> lk(mu_) on thread t, once the mutex is free
Lock(b, t) == [b EXCEPT !.mu_ = t]

\* lk.unlock(), and the destructor of lk on a return with the mutex held
Unlock(b) == [b EXCEPT !.mu_ = 0]

TryAdmit_callsBackLocked(b, t) ==
    LET r == AdmitAndFlush(b, <<>>)
    IN [b |-> Unlock(FireAdmissions(r.b, t, r.admission_callbacks)),
        admission_callbacks |-> <<>>]

\* TryAdmit(cq, lk) called on thread t with the mutex held, lines 333-343:
\* the loops and lk.unlock(); the callbacks collected are yet to be invoked
TryAdmit(b, t) ==
    LET r == AdmitAndFlush(b, <<>>)
    IN [b |-> Unlock(r.b), admission_callbacks |-> r.admission_callbacks]

\* AsyncApply, lines 157-161: thread t builds the pending mutation and locks
AsyncApplyEnter(b, t, mut) ==
    LET b1 == [b EXCEPT !.muts = Append(@, mut)]
    IN [Lock(b1, t) EXCEPT
          !.apps[t] = [pc |-> "locked", pending |-> Len(b1.muts)]]

\* AsyncApply, lines 163-184, on thread t: from the mutex taken to the
\* unlock (165, 184) or to the return that unlocks (178).  can_append: what
\* CanAppendToBatch(pending) returns in line 175; the function is declared
\* in a header that is not part of these sources, so its result is an input
AsyncApply(b, t, can_append) ==
    LET id == b.apps[t].pending
        mut == b.muts[id]
    IN IF IsValid(b, mut) # "OK"
       THEN [Unlock(b) EXCEPT !.apps[t].pc = "invalid"]
       ELSE IF ~can_append
       THEN [Unlock([b EXCEPT !.pending_mutations_ = Append(@, id)]) EXCEPT
                !.apps[t] = IdleThread]
       ELSE [Unlock(FlushIfPossible(Admit(b, id)).b) EXCEPT
                !.apps[t].pc = "admitted"]

\* AsyncApply past its unlock, on thread t: lines 166-172, or lines 186-187
AsyncApplyCallbacks(b, t) ==
    LET id == b.apps[t].pending
        done ==
            IF b.apps[t].pc = "invalid"
            THEN Invoke(Invoke(b, t, id, "completion", IsValid(b, b.muts[id])),
                        t, id, "admission", "OK")
            ELSE Invoke(b, t, id, "admission", "OK")
    IN [done EXCEPT !.apps[t] = IdleThread]

\* the loops of OnSuccessfulMutations and OnFailedMutations over the batch
\* number k: the completion callback of every entry reported, then erase
RECURSIVE Complete(_, _, _, _)
Complete(b, k, indices, status) ==
    IF indices = {} THEN b
    ELSE LET idx == CHOOSE i \in indices : \A j \in indices : i <= j
             id == b.flushed[k].requests[idx + 1]
             b1 == Invoke(b, CqThread(k), id, "completion", status)
         IN Complete([b1 EXCEPT
                        !.flushed[k].completed_size = @ + b.muts[id].request_size,
                        !.flushed[k].mutation_data = @ \ {idx}],
                     k, indices \ {idx}, status)

OnSuccessfulMutations_countsUnlocked(b, k, indices) ==
    LET b1 == Complete(b, k, indices, "OK")
        b2 == [b1 EXCEPT !.oustanding_size_ = @ - b1.flushed[k].completed_size,
                         !.flushed[k].completed_size = 0]
    IN [b2 EXCEPT !.flushed[k].pc = "lock", !.flushed[k].event = "mutations"]

\* OnSuccessfulMutations, lines 270-279: up to where it takes the mutex
OnSuccessfulMutations(b, k, indices) ==
    [Complete(b, k, indices, "OK") EXCEPT
        !.flushed[k].pc = "lock", !.flushed[k].event = "mutations"]

\* OnFailedMutations, lines 289-305: up to where it takes the mutex
OnFailedMutations(b, k, failed) ==
    [Complete(b, k, failed, ErrorStatus) EXCEPT
        !.flushed[k].pc = "lock", !.flushed[k].event = "mutations"]

OnBulkApplyAttemptFinished_countsRetries(b, k) ==
    [b EXCEPT
        !.flushed[k].retried = b.flushed[k].attempt_finished,
        !.flushed[k].attempt_finished = TRUE,
        !.flushed[k].pc = "lock",
        !.flushed[k].event = "attempt"]

\* OnBulkApplyAttemptFinished, lines 314-321: up to where it takes the mutex
OnBulkApplyAttemptFinished(b, k) ==
    IF b.flushed[k].attempt_finished
    THEN [b EXCEPT !.flushed[k].retried = TRUE]
    ELSE [b EXCEPT
             !.flushed[k].attempt_finished = TRUE,
             !.flushed[k].pc = "lock",
             !.flushed[k].event = "attempt"]

\* std::unique_lock<std::mutex> lk(mu_) of the three callbacks, lines 281,
\* 307 and 322, once the mutex is free
CallbackLock(b, k) ==
    [Lock(b, CqThread(k)) EXCEPT !.flushed[k].pc = "locked"]

\* the three callbacks with the mutex held: lines 282-283 and 308-309, or
\* lines 323-325, to the unlock in TryAdmit
CallbackLocked(b, k) ==
    LET b1 == IF b.flushed[k].event = "attempt"
              THEN FlushIfPossible(
                       [b EXCEPT !.num_outstanding_batches_ = @ - 1]).b
              ELSE [b EXCEPT !.oustanding_size_ = @ - b.flushed[k].completed_size]
        r == TryAdmit(b1, CqThread(k))
    IN [r.b EXCEPT
           !.flushed[k].completed_size = 0,
           !.flushed[k].admission_callbacks = r.admission_callbacks,
           !.flushed[k].pc = "unlocked"]

\* the three callbacks past the unlock: TryAdmit lines 347-350, the
\* admission callbacks collected, and the return
CallbackUnlocked(b, k) ==
    [FireAdmissions(b, CqThread(k), b.flushed[k].admission_callbacks) EXCEPT
        !.flushed[k].admission_callbacks = <<>>,
        !.flushed[k].pc = "idle",
        !.flushed[k].event = "none"]

\* the batcher while the model follows something else
IdleBatcher == NewMutationBatcher(Options(1, 1, 1, 1))

\* no function called
NoCall == [arg |-> SizeT(0), stage |-> 0, result |-> SizeT(0),
           twice |-> SizeT(0), constructed |-> FALSE]

\* the read stream while the model follows a write stream or a session
IdleReader == NewObjectReadStreambuf(TRUE, "OK", <<>>, NoDigest)

-----------------------------------------------------------------------------
(* The write stream driven by an application *)

\* a reply other than a success that commits everything sent
IsFault(c) ==
    \/ ~c.ok
    \/ c.response.last_committed_byte #
          LastCommittedByte(c.request.range_begin + Size(c.request.payload))

RECURSIVE Faults(_)
Faults(cs) ==
    IF cs = <<>> THEN 0
    ELSE (IF IsFault(Head(cs)) THEN 1 ELSE 0) + Faults(Tail(cs))

NewWorld(max_buffer_size) ==
    [sb |-> NewStreambuf(max_buffer_size),
     se |-> [session_id_ |-> "s0", next_expected_ |-> 0],
     hv |-> NewHashValidator,
     calls |-> <<>>,
     crashed |-> FALSE]

NoReturn ==
    [op |-> "none", ok |-> TRUE, value |-> NoHttpResponse,
     was_open |-> TRUE, calls_before |-> 0, pending_before |-> 0,
     pending_bytes |-> <<>>, final_bytes |-> <<>>, cut |-> 0,
     written_before |-> 0]

World == [sb |-> streambuf, se |-> session, hv |-> validator,
          calls |-> calls, crashed |-> crashed]

Install(w) ==
    /\ Faults(w.calls) <= MaxFaults
    /\ streambuf' = w.sb
    /\ session' = w.se
    /\ validator' = w.hv
    /\ calls' = w.calls
    /\ crashed' = w.crashed
    /\ UNCHANGED <<reader, calc, batcher>>

Returned(op, ok, value) ==
    [op |-> op, ok |-> ok, value |-> value,
     was_open |-> IsOpen(streambuf),
     calls_before |-> Len(calls),
     pending_before |-> streambuf.pptr,
     pending_bytes |-> Pending(streambuf),
     final_bytes |-> Pending(streambuf),
     cut |-> IF streambuf.pbase_valid
             THEN Max(0, streambuf.pptr - streambuf.size) ELSE 0,
     written_before |-> written]

InitWith(max_buffer_size) ==
    /\ streambuf = NewWorld(max_buffer_size).sb
    /\ session = NewWorld(max_buffer_size).se
    /\ validator = NewWorld(max_buffer_size).hv
    /\ calls = <<>>
    /\ crashed = FALSE
    /\ written = 0
    /\ ret = NoReturn
    /\ nops = 0
    /\ twin = NewWorld(max_buffer_size)

Init ==
    /\ \E m \in MaxBufferSizes : InitWith(m)
    /\ reader = IdleReader
    /\ calc = NoCall
    /\ batcher = IdleBatcher

CanAct == ~crashed /\ nops < MaxOps

\* what a read through pbase() can do: fault only when pbase is stale or
\* the string is shorter than the put area
Segv == IF streambuf.pbase_valid /\ streambuf.size >= streambuf.pptr
        THEN {FALSE} ELSE BOOLEAN

Sputc ==
    /\ CanAct
    /\ \E e \in StreamReplies, realloc \in BOOLEAN, segv \in Segv :
         LET r == sputc(World, AppBytes(written, 1), e, realloc, segv) IN
         /\ Install(r.w)
         /\ ret' = Returned("sputc", r.ok, NoHttpResponse)
         /\ written' = IF r.ok THEN written + 1 ELSE written
    /\ nops' = nops + 1
    /\ UNCHANGED twin

Sputn ==
    /\ CanAct
    /\ \E count \in WriteSizes, e \in StreamReplies, segv \in Segv :
         LET r == xsputn(World, AppBytes(written, count), e, segv) IN
         /\ Install(r.w)
         /\ ret' = Returned("sputn", r.ok, NoHttpResponse)
         /\ written' = IF IsOpen(streambuf) THEN written + count ELSE written
    /\ nops' = nops + 1
    /\ UNCHANGED twin

Pubsync ==
    /\ CanAct
    /\ \E e \in StreamReplies, segv \in Segv :
         LET r == sync(World, e, segv) IN
         /\ Install(r.w)
         /\ ret' = Returned("pubsync", r.ok, NoHttpResponse)
    /\ UNCHANGED <<written, twin>>
    /\ nops' = nops + 1

\* ValidateHash(meta), which a writer calls with the metadata of the object
DoValidateHash ==
    /\ CanAct
    /\ \E meta \in {NoDigest, DigestOf(AppBytes(0, written))},
          again \in (IF validator.finished = 0 THEN {FALSE} ELSE BOOLEAN) :
         LET r == ValidateHash(World, meta, again) IN
         /\ Install(r.w)
         /\ ret' = Returned("ValidateHash", r.result, NoHttpResponse)
    /\ UNCHANGED <<written, twin>>
    /\ nops' = nops + 1

DoCloseStream ==
    /\ CanAct
    /\ \E e1 \in StreamReplies, e2 \in StreamReplies, segv \in Segv :
         LET r == Close(World, e1, e2, segv) IN
         /\ Install(r.w)
         /\ ret' = [Returned("Close", r.status.ok, r.status.value) EXCEPT
                      !.final_bytes = Pending(sync(World, e1, segv).w.sb)]
    /\ UNCHANGED <<written, twin>>
    /\ nops' = nops + 1

Next == Sputc \/ Sputn \/ Pubsync \/ DoCloseStream \/ DoValidateHash

Spec == Init /\ [][Next]_vars

-----------------------------------------------------------------------------
(* The same payload through two streams of one configuration: in bulk      *)
(* buffers (sputn) through streambuf, one byte at a time (sputc) through   *)
(* twin, every upload succeeding.                                          *)

FullReply == [kind |-> "full", lcb |-> 0, url |-> ""]

\* the bytes of a byte-wise write whose push_back can move the string and
\* whose sputc can read through a stale pbase: none on a stream that has
\* reserved its threshold, any of them on a stream made with threshold 0
Positions(sb, first, count) ==
    IF sb.max_buffer_size_ > 0 THEN {} ELSE first .. first + count - 1

\* a byte-wise write to a stream with threshold 0 makes a session call for
\* every byte: there the loop is run in stretches of at most SmallLen bytes,
\* MaxOps of them at most, so that the history of calls stays bounded
Bytewise(sb, count) == sb.max_buffer_size_ > 0 \/ count <= SmallLen

PairWrite ==
    /\ nops < MaxOps
    /\ IsOpen(streambuf)
    /\ ~crashed /\ ~twin.crashed
    /\ \E count \in WriteSizes, segv \in Segv :
         /\ Bytewise(twin.sb, count)
         /\ LET r == xsputn(World, AppBytes(written, count), FullReply, segv) IN
            /\ Install(r.w)
            /\ ret' = Returned("sputn", r.ok, NoHttpResponse)
         /\ \E moves \in SUBSET Positions(twin.sb, written, count),
               dies \in Positions(twin.sb, written, count) \cup {-1} :
               twin' = SputcLoop(twin, written, count, FullReply, moves, dies)
         /\ written' = written + count
    /\ nops' = nops + 1

PairClose ==
    /\ IsOpen(streambuf)
    /\ ~crashed /\ ~twin.crashed
    /\ \E segv \in Segv :
         LET r == Close(World, FullReply, FullReply, segv) IN
         /\ Install(r.w)
         /\ ret' = [Returned("Close", r.status.ok, r.status.value) EXCEPT
                      !.final_bytes = Pending(sync(World, FullReply, segv).w.sb)]
    /\ \E segv \in BOOLEAN :
         twin' = Close(twin, FullReply, FullReply, segv).w
    /\ UNCHANGED written
    /\ nops' = nops + 1

PairNext == PairWrite \/ PairClose

PairSpec == Init /\ [][PairNext]_vars

-----------------------------------------------------------------------------
(* The read stream driven by an application *)

MaxReadOps == 4

\* what the transfer can deliver: the object, and more than the object
Download == AppBytes(0, MaxReadOps * ReadLen)

ReadInit ==
    /\ InitWith(kChunkSizeQuantum)
    /\ calc = NoCall
    /\ batcher = IdleBatcher
    /\ \E exceptions \in BOOLEAN, status \in {"OK", ErrorStatus} :
          reader = NewObjectReadStreambuf(exceptions, status, Download,
                                          DigestOf(AppBytes(0, ObjectLen)))

WriteUnchanged ==
    UNCHANGED <<streambuf, session, validator, calls, crashed, written, ret,
                nops, twin, calc, batcher>>

\* sgetc / sbumpc with the get area used up
Underflow ==
    /\ reader.nops < MaxReadOps
    /\ reader.gptr = reader.egptr
    /\ \E reply \in ReadReplies, again \in BOOLEAN :
          reader' = underflow(reader, reply, again)
    /\ WriteUnchanged

Sgetn ==
    /\ reader.nops < MaxReadOps
    /\ reader.gptr < reader.egptr
    /\ reader' = Drain(reader)
    /\ WriteUnchanged

CloseReader ==
    /\ reader.nops < MaxReadOps
    /\ \E ok \in BOOLEAN : reader' = ReadClose(reader, ok)
    /\ WriteUnchanged

ReadNext == Underflow \/ Sgetn \/ CloseReader

ReadSpec == ReadInit /\ [][ReadNext]_vars

-----------------------------------------------------------------------------
(* RoundUpToQuantum called on sizes over the whole range of std::size_t,   *)
(* called again on its result, and a stream constructed with the size.     *)

RoundInputs ==
    [h2 : {0, HalfRange - 1},
     h1 : {0, 1, MaxQuanta, HalfRange - 2, HalfRange - 1},
     lo : {0, 1, SmallLen, kChunkSizeQuantum - 1}]

RoundInit ==
    /\ InitWith(kChunkSizeQuantum)
    /\ reader = IdleReader
    /\ batcher = IdleBatcher
    /\ \E n \in RoundInputs : calc = [NoCall EXCEPT !.arg = n]

Round ==
    /\ calc.stage = 0
    /\ calc' = [calc EXCEPT !.stage = 1, !.result = RoundUpToQuantum(calc.arg)]
    /\ UNCHANGED <<streambuf, session, validator, calls, crashed, written, ret,
                   nops, twin, reader, batcher>>

RoundAgain ==
    /\ calc.stage = 1
    /\ calc' = [calc EXCEPT !.stage = 2, !.twice = RoundUpToQuantum(calc.result)]
    /\ UNCHANGED <<streambuf, session, validator, calls, crashed, written, ret,
                   nops, twin, reader, batcher>>

\* CurlResumableStreambuf(session, max_buffer_size, validator) with the size
Construct ==
    /\ calc.stage >= 1
    /\ ~calc.constructed
    /\ calc.arg.h2 = 0 /\ calc.arg.h1 <= MaxQuanta
    /\ streambuf' = NewStreambuf(AsInt(calc.arg))
    /\ calc' = [calc EXCEPT !.constructed = TRUE]
    /\ UNCHANGED <<session, validator, calls, crashed, written, ret, nops,
                   twin, reader, batcher>>

RoundNext == Round \/ RoundAgain \/ Construct

RoundSpec == RoundInit /\ [][RoundNext]_vars

-----------------------------------------------------------------------------
(* The session driven directly, the service answering anything *)

Urls == {"", "s1"}

LcbChoices == {0, Q - 1, MaxQuanta * Q - 1}

SessionReplies ==
    [kind : {"error"}, lcb : {0}, url : {""}]
      \cup [kind : {"abs"}, lcb : LcbChoices, url : Urls]

SessionInit ==
    InitWith(Q) /\ reader = IdleReader /\ calc = NoCall /\ batcher = IdleBatcher

CanCall == Len(calls) < MaxCalls

InstallSession(r) ==
    /\ session' = r.w.se
    /\ calls' = r.w.calls
    /\ UNCHANGED <<streambuf, validator, crashed, written, ret, nops, twin,
                   reader, calc, batcher>>

CallUploadChunk ==
    /\ CanCall
    /\ \E e \in SessionReplies :
         InstallSession(SessionUploadChunk(World,
                            AppBytes(next_expected_byte(session), Q), e))

CallUploadFinalChunk ==
    /\ CanCall
    /\ \E e \in SessionReplies :
         InstallSession(SessionUploadFinalChunk(World,
                            AppBytes(next_expected_byte(session), SmallLen),
                            next_expected_byte(session) + SmallLen, e))

CallResetSession ==
    /\ CanCall
    /\ \E e \in SessionReplies : InstallSession(SessionResetSession(World, e))

SessionNext == CallUploadChunk \/ CallUploadFinalChunk \/ CallResetSession

SessionSpec == SessionInit /\ [][SessionNext]_vars

-----------------------------------------------------------------------------
(* What the history shows *)

Last(cs) == cs[Len(cs)]

AllOk(cs) == \A i \in 1..Len(cs) : cs[i].ok

\* the buffers of the calls op, in call order, one after the other
RECURSIVE SentBy(_, _)
SentBy(cs, ops) ==
    IF cs = <<>> THEN <<>>
    ELSE Cat(IF Head(cs).op \in ops THEN Head(cs).request.payload ELSE <<>>,
             SentBy(Tail(cs), ops))

UploadOps == {"UploadChunk", "UploadFinalChunk"}

CountOf(cs, op) == Cardinality({i \in 1..Len(cs) : cs[i].op = op})

\* the stream was closed by a successful Close
Closed(sb) == ~IsOpen(sb)

\* the last operation was a Close of an open stream and it succeeded
JustClosed == ret.op = "Close" /\ ret.was_open /\ ret.ok

-----------------------------------------------------------------------------
(* C1: with all session calls succeeding, every UploadChunk buffer has a   *)
(* length that is a positive multiple of 262144, for every max_buffer_size *)
(* (0 included), and once the stream is closed the UploadChunk lengths     *)
(* plus the UploadFinalChunk length add up to the number of bytes written. *)
C1_QuantumAlignment ==
    AllOk(calls) =>
       /\ \A i \in 1..Len(calls) :
            calls[i].op = "UploadChunk" =>
               /\ Size(calls[i].request.payload) > 0
               /\ Size(calls[i].request.payload) % kChunkSizeQuantum = 0
       /\ Closed(streambuf) => Size(SentBy(calls, UploadOps)) = written

(* C2: with all session calls succeeding, the UploadChunk buffers in call  *)
(* order followed by the UploadFinalChunk buffer are exactly the bytes     *)
(* written, in write order.                                                *)
C2_UploadedIsWritten ==
    (AllOk(calls) /\ Closed(streambuf)) =>
        SentBy(calls, UploadOps) = AppBytes(0, written)

(* C3: the total size of every UploadFinalChunk is the session's           *)
(* next_expected_byte() at the time of the call plus the number of bytes   *)
(* in the final buffer, whatever the application has written.              *)
C3_FinalSizeFromSession ==
    \A i \in 1..Len(calls) :
        calls[i].op = "UploadFinalChunk" =>
            calls[i].request.source_size =
                next_expected_byte(calls[i].before) + Size(calls[i].request.payload)

\* a final chunk after acknowledged progress, with pending bytes, whose total
\* is not the number of bytes written
C3_Witness ==
    /\ calls # <<>>
    /\ Last(calls).op = "UploadFinalChunk"
    /\ next_expected_byte(Last(calls).before) > 0
    /\ Size(Last(calls).request.payload) > 0
    /\ Last(calls).request.source_size # written

(* C4: closing a stream on which nothing was written issues exactly one    *)
(* UploadFinalChunk, with an empty buffer and total size                   *)
(* next_expected_byte() (0 on a fresh session), and no UploadChunk.        *)
C4_EmptyStream ==
    (JustClosed /\ written = 0 /\ AllOk(calls)) =>
        /\ Len(calls) = 1
        /\ calls[1].op = "UploadFinalChunk"
        /\ calls[1].request.payload = <<>>
        /\ calls[1].request.source_size = 0

\* the last operation was a Close of an open stream
ClosedOpen == ret.op = "Close" /\ ret.was_open

(* C5: a payload that is a multiple of the quantum goes out in UploadChunk *)
(* calls, then Close issues exactly one UploadFinalChunk with an empty     *)
(* buffer and the payload length as total size; the final call is always   *)
(* made.                                                                   *)
C5_EmptyTrailer ==
    (ClosedOpen /\ Faults(calls) = 0 /\ written > 0
        /\ written % kChunkSizeQuantum = 0) =>
        /\ ~crashed
        /\ CountOf(calls, "UploadFinalChunk") = 1
        /\ Last(calls).op = "UploadFinalChunk"
        /\ Last(calls).request.payload = <<>>
        /\ Last(calls).request.source_size = written
        /\ SentBy(calls, {"UploadChunk"}) = AppBytes(0, written)

\* what a call looks like to the session: which call, its buffer, its total
RECURSIVE Shapes(_)
Shapes(cs) ==
    IF cs = <<>> THEN <<>>
    ELSE <<[op |-> Head(cs).op, buffer |-> Head(cs).request.payload,
            upload_size |-> Head(cs).request.source_size]>> \o Shapes(Tail(cs))

\* both ways of writing came to their end: Close was called on both streams,
\* or one of them died before
PairDone == ret.op = "Close" \/ crashed \/ twin.crashed

(* C6: the same payload written one byte at a time and in bulk buffers,    *)
(* then closed, gives the same sequence of UploadChunk and                 *)
(* UploadFinalChunk calls: as many calls, the same buffers, the same       *)
(* order, the same total size.                                             *)
C6_SameCalls ==
    PairDone =>
        /\ ~crashed /\ ~twin.crashed
        /\ Shapes(twin.calls) = Shapes(calls)

(* C7: a second Close, after a Close that succeeded, returns the cached    *)
(* successful response and issues no session call.                         *)
C7_IdempotentClose ==
    (ret.op = "Close" /\ ~ret.was_open) =>
        /\ ~crashed
        /\ ret.ok
        /\ ret.value = streambuf.last_response_
        /\ Len(calls) = ret.calls_before

\* the position in calls of the first UploadChunk that failed, 0 if none
FirstFailedChunk ==
    LET failed == {i \in 1..Len(calls) : calls[i].op = "UploadChunk" /\ ~calls[i].ok}
    IN IF failed = {} THEN 0 ELSE CHOOSE i \in failed : \A j \in failed : i <= j

(* C8: once an UploadChunk has failed the stream is Failed: that operation *)
(* and every later write, flush and close return the error, and no further *)
(* UploadChunk or UploadFinalChunk is issued.                              *)
C8_FailedIsTerminal ==
    FirstFailedChunk # 0 =>
        /\ Len(calls) = FirstFailedChunk
        /\ ~ret.ok

(* C9: next_expected_byte() never decreases: after every successful       *)
(* UploadChunk, UploadFinalChunk or ResetSession, whatever the response,   *)
(* it is at least what it was before the call.                             *)
C9_ProgressMonotonic ==
    (calls # <<>> /\ Last(calls).ok) =>
        next_expected_byte(session) >= next_expected_byte(Last(calls).before)

\* next_expected_byte() as Update derives it from a response
Encoded(last_committed_byte) ==
    IF last_committed_byte = 0 THEN 0 ELSE last_committed_byte + 1

\* the positions in cs of the calls that succeeded
Succeeded(cs) == {i \in 1..Len(cs) : cs[i].ok}

(* C11: next_expected_byte() is what the latest successful response gives: *)
(* 0 when its last_committed_byte is 0, last_committed_byte + 1 otherwise; *)
(* failed calls in between change nothing.                                 *)
C11_ProgressEncoding ==
    Succeeded(calls) # {} =>
        LET latest == CHOOSE i \in Succeeded(calls) :
                          \A j \in Succeeded(calls) : j <= i
        IN next_expected_byte(session) =
               Encoded(calls[latest].response.last_committed_byte)

\* progress was acknowledged, then a success reported last_committed_byte 0,
\* then a call failed
C11_Witness ==
    /\ Len(calls) >= 3
    /\ calls[1].ok /\ calls[1].response.last_committed_byte > 0
    /\ calls[2].ok /\ calls[2].response.last_committed_byte = 0
    /\ ~Last(calls).ok
    /\ next_expected_byte(session) = 0

(* C10: a call that returns an error leaves next_expected_byte() and       *)
(* session_id() as they were before the call.                              *)
C10_ErrorLeavesSession ==
    (calls # <<>> /\ ~Last(calls).ok) =>
        /\ next_expected_byte(session) = next_expected_byte(Last(calls).before)
        /\ session_id(session) = session_id(Last(calls).before)

\* a call failed on a session that had progress and a reissued id
C10_Witness ==
    /\ calls # <<>> /\ ~Last(calls).ok
    /\ next_expected_byte(session) > 0
    /\ session_id(session) # "s0"

(* C12: every UploadChunk and UploadFinalChunk of the write stream comes   *)
(* right after exactly one HashValidator.Update, made on the very buffer   *)
(* of that call: the Update calls and the session calls alternate.         *)
C12_UpdateBeforeUpload ==
    /\ Len(validator.updates) = Len(calls)
    /\ \A i \in 1..Len(calls) :
          /\ validator.updates[i].at = i - 1
          /\ validator.updates[i].bytes = calls[i].request.payload

\* a chunk failed, was sent again, and an empty final chunk followed
C12_Witness ==
    /\ Len(calls) >= 3
    /\ ~calls[1].ok
    /\ calls[2].ok /\ calls[2].request.payload = calls[1].request.payload
    /\ calls[2].request.payload # <<>>
    /\ Last(calls).op = "UploadFinalChunk"
    /\ Last(calls).request.payload = <<>>

\* the buffers of the uploads that succeeded, in call order
RECURSIVE Accepted(_)
Accepted(cs) ==
    IF cs = <<>> THEN <<>>
    ELSE Cat(IF Head(cs).ok /\ Head(cs).op \in UploadOps
             THEN Head(cs).request.payload ELSE <<>>,
             Accepted(Tail(cs)))

(* C13: whatever failed and was sent again, once the stream is closed the  *)
(* bytes fed to HashValidator.Update, in call order, are the bytes of the  *)
(* uploads that succeeded.                                                 *)
C13_DigestMatchesServer ==
    Closed(streambuf) => validator.fed = Accepted(calls)

\* the last operation was a read attempt that found the get area used up
Refilled == reader.last.op = "underflow"

\* the bytes received do not match the digest the server advertised
Mismatched(hv) == hv.received.set /\ hv.received.of # hv.fed

(* C14: the read that reaches end-of-stream finishes the validator; when   *)
(* the bytes received do not match the advertised digest it throws         *)
(* HashMismatchError, or without exceptions sets the status to kDataLoss   *)
(* and returns EOF; when they match it returns a plain EOF and leaves the  *)
(* status as it was.                                                       *)
C14_MismatchIsDataLoss ==
    (Refilled /\ reader.last.finished /\ reader.hash_validator_.finished = 1) =>
        IF Mismatched(reader.hash_validator_)
        THEN IF reader.exceptions
             THEN reader.last.thrown = "HashMismatchError"
             ELSE /\ reader.status_ = "kDataLoss"
                  /\ reader.last.value = "eof"
                  /\ reader.last.thrown = "none"
        ELSE /\ reader.last.value = "eof"
             /\ reader.last.thrown = "none"
             /\ reader.status_ = reader.last.status_before

\* bytes were received, a digest was advertised, the download ended and the
\* two did not match, in a build without exceptions
C14_Witness ==
    /\ Refilled /\ reader.last.finished
    /\ reader.hash_validator_.finished = 1
    /\ reader.hash_validator_.fed # <<>>
    /\ Mismatched(reader.hash_validator_)
    /\ ~reader.exceptions
    /\ reader.last.status_before = "OK"

(* C15: Finish is called at most once on the validator of a read stream,   *)
(* whatever is read, read attempts after end-of-stream included.           *)
C15_FinishOnce ==
    reader.hash_validator_.finished <= 1

(* C16: Update and ProcessHeader are never called on the validator of a    *)
(* read stream after its Finish.                                           *)
C16_NoUpdateAfterFinish ==
    ~reader.hash_validator_.late

(* C17: once a refill has reported an error, a later read attempt calls    *)
(* Read no more and reports the cached error; once end-of-stream was       *)
(* reached and validated, a later read attempt calls Read no more and      *)
(* reports EOF.                                                            *)
C17_TerminalStates ==
    Refilled =>
        /\ reader.last.after_error =>
              /\ ~reader.last.read
              /\ reader.status_ = reader.last.status_before
              /\ reader.status_ # "OK"
        /\ reader.last.after_eof =>
              /\ ~reader.last.read
              /\ reader.last.value = "eof"

(* C18: a Read that succeeds with status_code >= 300 is an error: the      *)
(* status of the stream is not OK, nothing of the response was fed to      *)
(* Update and the get area holds no byte to read.                          *)
C18_HttpErrorSurfaced ==
    (Refilled /\ reader.last.read /\ reader.last.response >= 300) =>
        /\ reader.status_ # "OK"
        /\ reader.hash_validator_.fed = reader.last.fed_before
        /\ reader.gptr = reader.egptr

\* bytes had been read, then a Read answered 404 with a body
C18_Witness ==
    /\ Refilled /\ reader.last.read
    /\ reader.last.response = 404
    /\ reader.current_ios_buffer_ # <<>>
    /\ reader.last.fed_before # <<>>
    /\ reader.last.status_before = "OK"

(* C19: RoundUpToQuantum(n) is the smallest multiple of 262144 that is at  *)
(* least n, for every std::size_t n: a multiple, not below n, less than a  *)
(* quantum above n, n itself when n is a multiple, unchanged when rounded  *)
(* again; and a stream constructed with n has it as its flush threshold.   *)
C19_SmallestMultiple ==
    /\ calc.stage >= 1 =>
          /\ calc.result.lo = 0
          /\ ~Less(calc.result, calc.arg)
          /\ Less(Minus(calc.result, calc.arg), SizeT(kChunkSizeQuantum))
          /\ calc.arg.lo = 0 => calc.result = calc.arg
    /\ calc.stage >= 2 => calc.twice = calc.result
    /\ calc.constructed =>
          streambuf.max_buffer_size_ = AsInt(calc.result)

(* C20: after a successful Close IsOpen() is false, and a sputc or sputn   *)
(* on the closed stream returns EOF, leaves the pending buffer as it was   *)
(* and makes no session call.                                              *)
C20_ClosedRejectsWrites ==
    /\ JustClosed => ~IsOpen(streambuf)
    /\ (ret.op \in {"sputc", "sputn"} /\ ~ret.was_open) =>
          /\ ~ret.ok
          /\ ~IsOpen(streambuf)
          /\ Len(calls) = ret.calls_before
          /\ streambuf.pptr = ret.pending_before
          /\ Pending(streambuf) = ret.pending_bytes

\* bytes were written, the stream was closed, then a write was attempted
C20_Witness ==
    /\ ret.op \in {"sputc", "sputn"} /\ ~ret.was_open
    /\ written > 0
    /\ calls # <<>> /\ Last(calls).op = "UploadFinalChunk" /\ Last(calls).ok

-----------------------------------------------------------------------------
(* An object uploaded through the write stream, every upload succeeding,   *)
(* to a server that stores the buffers it accepts one after the other, and *)
(* then downloaded through a read stream until end-of-stream.              *)

\* the sizes of the responses of the download
TripReadSizes == {ReadLen, kChunkSizeQuantum, MaxOps * MaxQuanta * kChunkSizeQuantum}

Downloading == ret.op = "ReadObject"

TripWrite ==
    /\ nops < MaxOps
    /\ IsOpen(streambuf)
    /\ ~crashed
    /\ ~Downloading
    /\ \E count \in WriteSizes :
         /\ \/ \E segv \in Segv :
                  Install(xsputn(World, AppBytes(written, count), FullReply, segv).w)
                  /\ ret' = Returned("sputn", TRUE, NoHttpResponse)
            \/ /\ Bytewise(streambuf, count)
               /\ \E moves \in SUBSET Positions(streambuf, written, count),
                     dies \in Positions(streambuf, written, count) \cup {-1} :
                     Install(SputcLoop(World, written, count, FullReply, moves, dies))
               /\ ret' = Returned("sputc", TRUE, NoHttpResponse)
         /\ written' = written + count
    /\ nops' = nops + 1
    /\ UNCHANGED twin

TripClose ==
    /\ IsOpen(streambuf)
    /\ ~crashed
    /\ ~Downloading
    /\ \E segv \in Segv :
         LET r == Close(World, FullReply, FullReply, segv) IN
         /\ Install(r.w)
         /\ ret' = [Returned("Close", r.status.ok, r.status.value) EXCEPT
                      !.final_bytes = Pending(sync(World, FullReply, segv).w.sb)]
    /\ UNCHANGED <<written, nops, twin>>

\* ReadObject: the read stream over the object the server stored
TripOpen ==
    /\ Closed(streambuf)
    /\ ~Downloading
    /\ \E exceptions \in BOOLEAN :
          reader' = NewObjectReadStreambuf(exceptions, "OK", Accepted(calls),
                                           DigestOf(Accepted(calls)))
    /\ ret' = [NoReturn EXCEPT !.op = "ReadObject"]
    /\ UNCHANGED <<streambuf, session, validator, calls, crashed, written,
                   nops, twin, calc, batcher>>

\* the source hands out the object from its start to its end and is closed
\* once all of it was handed out, with the last bytes or on the Read after
TripReplies(src) ==
    {reply \in [kind : {"response"}, status_code : {200}, count : TripReadSizes,
                digest : BOOLEAN, intact : {TRUE}, closes : BOOLEAN] :
        /\ src.served + reply.count < Size(src.body) => ~reply.closes
        /\ src.served = Size(src.body) => reply.closes}

TripUnderflow ==
    /\ Downloading
    /\ reader.nops < MaxReadOps
    /\ reader.gptr = reader.egptr
    /\ ~reader.eof
    /\ \E reply \in TripReplies(reader.source_), again \in BOOLEAN :
          reader' = underflow(reader, reply, again)
    /\ WriteUnchanged

TripSgetn ==
    /\ Downloading
    /\ reader.gptr < reader.egptr
    /\ reader' = Drain(reader)
    /\ WriteUnchanged

TripNext ==
    TripWrite \/ TripClose \/ TripOpen \/ TripUnderflow \/ TripSgetn

TripSpec == Init /\ [][TripNext]_vars

\* the download reached end-of-stream
TripDone == Downloading /\ Refilled /\ reader.last.finished

(* C21: bytes uploaded through the write stream, in any split into writes, *)
(* to a server that stores what it receives, and read back through the     *)
(* read stream until end-of-stream: the bytes delivered are the bytes      *)
(* written, no mismatch is reported, and the bytes hashed on download are  *)
(* the bytes hashed on upload.                                             *)
C21_RoundTrip ==
    TripDone =>
        /\ reader.delivered = AppBytes(0, written)
        /\ ~reader.last.mismatch
        /\ reader.last.thrown = "none"
        /\ reader.status_ = "OK"
        /\ reader.hash_validator_.fed = validator.fed

-----------------------------------------------------------------------------
\* the session as call number i left it
SessionAfter(i) == IF i < Len(calls) THEN calls[i + 1].before ELSE session

(* C23: after a successful UploadChunk, UploadFinalChunk or ResetSession   *)
(* session_id() is the response's upload_session_url when that is not      *)
(* empty and is unchanged when it is empty; every request goes to the      *)
(* session id current when the call is made, and every upload request has  *)
(* the next_expected_byte() of that moment as its range_begin.             *)
C23_SessionIdFollowsResponse ==
    \A i \in 1..Len(calls) :
        /\ calls[i].ok =>
              session_id(SessionAfter(i)) =
                 IF calls[i].response.upload_session_url # ""
                 THEN calls[i].response.upload_session_url
                 ELSE session_id(calls[i].before)
        /\ calls[i].request.upload_session_url = session_id(calls[i].before)
        /\ calls[i].op \in UploadOps =>
              calls[i].request.range_begin = next_expected_byte(calls[i].before)

\* the server reissued the URL, the next call went to the new URL at the
\* offset acknowledged and its response carried no URL
C23_Witness ==
    /\ Len(calls) >= 2
    /\ calls[1].ok /\ calls[1].response.upload_session_url = "s1"
    /\ calls[1].response.last_committed_byte > 0
    /\ calls[2].ok /\ calls[2].response.upload_session_url = ""
    /\ calls[2].op \in UploadOps
    /\ calls[2].request.upload_session_url = "s1"
    /\ calls[2].request.range_begin > 0
    /\ session_id(session) = "s1"

-----------------------------------------------------------------------------
\* the last operation was a sputc, sputn or pubsync on an open stream: each
\* of them runs Flush, sputc before it appends its byte
AfterFlush == ret.op \in {"sputc", "sputn", "pubsync"} /\ ret.was_open

\* the bytes pending when that Flush returned
FlushedPending ==
    IF ret.op = "sputc" /\ ret.ok THEN streambuf.pptr - 1 ELSE streambuf.pptr

\* that Flush made a session call
FlushUploaded == Len(calls) > ret.calls_before

(* C24: after any flush returns, from pubsync or inside sputn or sputc,    *)
(* for any max_buffer_size, fewer than 262144 bytes are pending.           *)
C24_PendingBelowQuantum ==
    (AfterFlush /\ ~crashed) => FlushedPending < kChunkSizeQuantum

-----------------------------------------------------------------------------
\* the last operation was a sputn on an open stream
AfterSputn == ret.op = "sputn" /\ ret.was_open

\* the bytes buffered when that sputn had appended its buffer: what it
\* uploaded and what it left pending
BufferedTotal ==
    streambuf.pptr +
       (IF FlushUploaded /\ ret.ok THEN Size(Last(calls).request.payload) ELSE 0)

(* C25 as stated: a sputn that brings the buffered bytes to k quanta and r *)
(* more bytes, k >= 1 and r below a quantum, issues exactly one            *)
(* UploadChunk, of k quanta, and leaves r bytes pending.                   *)
C25_FlushAtQuantum ==
    (AfterSputn /\ BufferedTotal >= kChunkSizeQuantum) =>
        /\ Len(calls) = ret.calls_before + 1
        /\ Last(calls).op = "UploadChunk"
        /\ Size(Last(calls).request.payload) = ChunkSize(BufferedTotal)
        /\ streambuf.pptr = BufferedTotal % kChunkSizeQuantum

(* The same with the threshold of the code: a sputn that brings the        *)
(* buffered bytes to RoundUpToQuantum(max_buffer_size) or more issues      *)
(* exactly one UploadChunk, carrying every whole quantum buffered, and     *)
(* when that call succeeds leaves the rest, less than a quantum, pending;  *)
(* a sputn that leaves the buffered bytes below the threshold issues no    *)
(* call and keeps them all pending.  It holds of every sputn that returns, *)
(* and not of one that dies reading the put area.                          *)
FlushAtThreshold ==
    AfterSputn =>
        IF ret.pending_before + (written - ret.written_before)
              >= streambuf.max_buffer_size_
        THEN /\ Len(calls) = ret.calls_before + 1
             /\ Last(calls).op = "UploadChunk"
             /\ Size(Last(calls).request.payload) =
                   ChunkSize(ret.pending_before + (written - ret.written_before))
             /\ ret.ok = Last(calls).ok
             /\ ret.ok =>
                   streambuf.pptr =
                      (ret.pending_before + (written - ret.written_before))
                         % kChunkSizeQuantum
             /\ ~ret.ok =>
                   streambuf.pptr =
                      ret.pending_before + (written - ret.written_before)
        ELSE /\ Len(calls) = ret.calls_before
             /\ ret.ok
             /\ streambuf.pptr =
                   ret.pending_before + (written - ret.written_before)

-----------------------------------------------------------------------------
\* the last operation was a sputc, a sputn or a pubsync on an open stream
AfterWriteOrSync == ret.op \in {"sputc", "sputn", "pubsync"} /\ ret.was_open

\* the bytes buffered when that operation called Flush: overflow and sync
\* call it on what was pending, xsputn after appending its buffer
BufferedAtFlush ==
    IF ret.op = "sputn"
    THEN ret.pending_before + (written - ret.written_before)
    ELSE ret.pending_before

(* C26: a sputc, sputn or pubsync that finds fewer bytes buffered than the *)
(* flush threshold issues no session call, so nothing is sent while fewer  *)
(* bytes than the threshold were written; and a Close of an open stream    *)
(* that was given fewer bytes than the threshold issues one call, an       *)
(* UploadFinalChunk whose buffer is the whole payload and whose total size *)
(* is the payload's length.                                                *)
C26_NothingBelowThreshold ==
    /\ (AfterWriteOrSync /\ BufferedAtFlush < streambuf.max_buffer_size_) =>
          /\ Len(calls) = ret.calls_before
          /\ ret.ok
          /\ streambuf.pptr = ret.pending_before + (written - ret.written_before)
    /\ written < streambuf.max_buffer_size_ =>
          \A i \in 1..Len(calls) :
             /\ calls[i].op = "UploadFinalChunk"
             /\ calls[i].request.range_begin = 0
             /\ Size(calls[i].request.payload) = calls[i].request.source_size
    /\ (ret.op = "Close" /\ ret.was_open /\ written < streambuf.max_buffer_size_) =>
          /\ Len(calls) = ret.calls_before + 1
          /\ Last(calls).request.payload = AppBytes(0, written)
          /\ Last(calls).request.source_size = written

\* bytes written one by one and in a block stayed below a threshold of two
\* quanta through a pubsync, and Close sent them all
C26_Witness ==
    /\ ret.op = "Close" /\ ret.was_open /\ ret.ok
    /\ written > kChunkSizeQuantum
    /\ written < streambuf.max_buffer_size_
    /\ Len(calls) = 1
    /\ Size(calls[1].request.payload) = written

-----------------------------------------------------------------------------
\* the last refill called Read and got a response with a status below 300
GotResponse ==
    Refilled /\ reader.last.read /\ reader.last.response \in 200..299

\* the bytes of the get area the application has not taken yet
Unread == Range(reader.current_ios_buffer_, reader.gptr, reader.egptr)

(* C27: a refill that receives a response below 300 with bytes feeds them  *)
(* to Update in one call, after everything fed before, makes them the get  *)
(* area and returns a character; at any time the bytes fed to Update are   *)
(* the bytes the application took followed by the bytes of the get area    *)
(* it has not taken yet, so at end-of-stream, with the get area used up,   *)
(* the Update inputs put together are the bytes delivered.                 *)
C27_FedIsDelivered ==
    /\ (GotResponse /\ reader.last.buffer # <<>>) =>
          /\ reader.current_ios_buffer_ = reader.last.buffer
          /\ reader.hash_validator_.fed =
                Cat(reader.last.fed_before, reader.current_ios_buffer_)
          /\ reader.hash_validator_.updates # <<>>
          /\ Last(reader.hash_validator_.updates).bytes =
                reader.current_ios_buffer_
          /\ Last(reader.hash_validator_.updates).at = reader.source_.reads
          /\ \A i \in 1..(Len(reader.hash_validator_.updates) - 1) :
                reader.hash_validator_.updates[i].at < reader.source_.reads
          /\ reader.gptr = 0
          /\ reader.egptr = Size(reader.current_ios_buffer_)
          /\ reader.last.value = "char"
    /\ reader.hash_validator_.fed = Cat(reader.delivered, Unread)
    /\ (reader.eof /\ reader.gptr = reader.egptr) =>
          reader.hash_validator_.fed = reader.delivered

\* a response with bytes was fed and taken by the application, then a Read
\* of the open source brought the end of the download
C27_Witness ==
    /\ Refilled /\ reader.last.finished /\ reader.last.read
    /\ Len(reader.hash_validator_.updates) = 1
    /\ Size(reader.delivered) = ReadLen
    /\ reader.hash_validator_.fed = reader.delivered
    /\ reader.gptr = reader.egptr

-----------------------------------------------------------------------------
(* C28: a refill whose Read returns a response below 300 with no bytes     *)
(* finishes the validator only when the source then reports closed; when   *)
(* the source still reports open the validator is not finished.            *)
C28_FinishOnlyWhenClosed ==
    (GotResponse /\ reader.last.buffer = <<>>) =>
        (reader.last.finished => ~ReadIsOpen(reader))

-----------------------------------------------------------------------------
\* the get area is on the buffer as it is and holds no byte to read
ValidEmptyRegion ==
    /\ reader.region = "valid"
    /\ reader.current_ios_buffer_ # <<>>
    /\ reader.gptr = reader.egptr
    /\ reader.egptr <= Size(reader.current_ios_buffer_)

(* C29: a refill that finds the source not open does not call Read, leaves *)
(* a valid empty get area on a buffer that is not empty, and goes through  *)
(* validation (the validator is finished and the refill returns EOF unless *)
(* validation throws for a mismatch); and after any refill the get area is *)
(* neither null nor left on a buffer that was rewritten since.             *)
C29_RegionAlwaysValid ==
    /\ (Refilled /\ ~reader.last.open_before) =>
          /\ ~reader.last.read
          /\ ValidEmptyRegion
          /\ reader.last.finished
          /\ \/ reader.last.value = "eof"
             \/ reader.last.mismatch /\ reader.last.thrown = "HashMismatchError"
    /\ Refilled => reader.region = "valid"

-----------------------------------------------------------------------------
\* the last refill called Read and got a response that carries a digest header
GotDigestHeader == Refilled /\ reader.last.read /\ reader.last.digest

(* C30: a refill whose Read returns a response passes the response's       *)
(* header to ProcessHeader, once, and records it in the headers of the     *)
(* stream, before any byte of that response is fed to Update: every Update *)
(* of that response comes after the ProcessHeader call.  This holds for    *)
(* responses with status_code >= 300 as well.                              *)
C30_HeadersBeforeBytes ==
    /\ GotDigestHeader =>
          /\ Len(reader.hash_validator_.headers) = reader.last.headers_before + 1
          /\ reader.hash_validator_.received = reader.source_.advertised
          /\ Last(reader.headers_) = reader.source_.advertised
          /\ \A i \in 1..Len(reader.hash_validator_.updates) :
                reader.hash_validator_.updates[i].at = reader.source_.reads =>
                   i > Last(reader.hash_validator_.headers).updates_before
    /\ Len(reader.headers_) = Len(reader.hash_validator_.headers)
    /\ (Refilled /\ ~reader.last.digest) =>
          Len(reader.hash_validator_.headers) = reader.last.headers_before

\* bytes had been fed; then a Read answered 404 with a digest header and a
\* body, and the header reached the validator
C30_Witness ==
    /\ GotDigestHeader
    /\ reader.last.response = 404
    /\ reader.last.buffer # <<>>
    /\ reader.last.fed_before # <<>>
    /\ reader.last.headers_before = 0
    /\ Len(reader.hash_validator_.headers) = 1

-----------------------------------------------------------------------------
\* the last operation on the read stream was Close
ReaderClosed == reader.last.op = "Close"

(* C31: Close of a read stream closes the source; when the source's Close  *)
(* fails the error is the status of the stream afterwards, reported the    *)
(* way ReportError reports (thrown as the status where there are           *)
(* exceptions, kept in the status alone where there are none); when the    *)
(* source's Close succeeds the status is what it was and nothing is thrown.*)
C31_CloseRecordsError ==
    ReaderClosed =>
        /\ ~ReadIsOpen(reader)
        /\ reader.last.closed # "OK" =>
              /\ reader.status_ = reader.last.closed
              /\ reader.last.thrown = IF reader.exceptions THEN "Status" ELSE "none"
        /\ reader.last.closed = "OK" =>
              /\ reader.status_ = reader.last.status_before
              /\ reader.last.thrown = "none"

\* bytes had been read without error; then Close failed at the source, in a
\* build with exceptions
C31_Witness ==
    /\ ReaderClosed
    /\ reader.last.closed # "OK"
    /\ reader.last.status_before = "OK"
    /\ reader.exceptions
    /\ reader.delivered # <<>>

-----------------------------------------------------------------------------
\* the upload calls of the stream that succeeded, by position
SuccessfulUploads ==
    {i \in 1..Len(calls) : calls[i].ok /\ calls[i].op \in UploadOps}

\* last_response_{400, {}, {}} of the constructor
Placeholder == HttpResponse(400, 0)

\* Flush has nothing to send: the stream is closed or below its threshold
NoIoNeeded ==
    ~IsOpen(streambuf) \/ streambuf.pptr < streambuf.max_buffer_size_

(* C32: the cached last response is the constructor's placeholder until an *)
(* upload succeeds and from then on the response of the most recent        *)
(* successful upload with status code 200; and a Flush that has nothing to *)
(* send returns the cached response and changes nothing.                   *)
C32_CachedLastResponse ==
    /\ streambuf.last_response_ =
          IF SuccessfulUploads = {} THEN Placeholder
          ELSE HttpResponse(200,
                  calls[CHOOSE i \in SuccessfulUploads :
                           \A j \in SuccessfulUploads : j <= i].response.payload)
    /\ (NoIoNeeded /\ ~crashed) =>
          \A e \in StreamReplies, segv \in BOOLEAN :
             /\ Flush(World, e, segv).w = World
             /\ Flush(World, e, segv).status = StatusOK(streambuf.last_response_)

\* two uploads succeeded, the second replaced the response of the first, and
\* a pubsync then had nothing to send
C32_Witness ==
    /\ ret.op = "pubsync" /\ ret.was_open /\ ret.ok
    /\ Len(calls) = ret.calls_before
    /\ SuccessfulUploads = {1, 2}
    /\ streambuf.last_response_ = HttpResponse(200, 2)
    /\ NoIoNeeded

-----------------------------------------------------------------------------
\* the last operation, on an open stream, ended with a session call that failed
UploadFailed ==
    /\ ret.was_open
    /\ Len(calls) > ret.calls_before
    /\ ~Last(calls).ok

\* the put area when the operation went into the Flush or FlushFinal that
\* made its last session call.  sync and overflow go into Flush with the put
\* area as they find it; xsputn first rebuilds the string from the put area
\* (line 79), which leaves unspecified bytes where a failed Flush had cut the
\* string short of pptr (ret.cut bytes), and appends its buffer (line 80);
\* Close goes into FlushFinal with what the Flush of its pubsync() left
\* (ret.final_bytes)
PendingAtCall ==
    IF ret.op = "sputn"
    THEN Cat(Cat(Prefix(ret.pending_bytes, ret.pending_before - ret.cut),
                 Junk(ret.cut)),
             AppBytes(ret.written_before, written - ret.written_before))
    ELSE IF /\ ret.op = "Close"
            /\ Len(calls) > ret.calls_before
            /\ Last(calls).op = "UploadFinalChunk"
    THEN ret.final_bytes
    ELSE ret.pending_bytes

(* C33: when the UploadChunk or UploadFinalChunk call of a stream          *)
(* operation fails the stream stays open with its session, and the bytes   *)
(* that were pending before the call are all still pending, unaltered and  *)
(* in order.                                                               *)
C33_FailureKeepsPending ==
    UploadFailed =>
        /\ IsOpen(streambuf)
        /\ session = Last(calls).before
        /\ streambuf.pptr = Size(PendingAtCall)
        /\ Pending(streambuf) = PendingAtCall

-----------------------------------------------------------------------------
(* The batcher used by application threads calling AsyncApply while the    *)
(* completion queue runs the callbacks of the batches in flight.  Every    *)
(* step is what one thread does between two points where other threads can *)
(* come in: up to the mutex taken, from there to the unlock, and from there *)
(* to the return.                                                          *)

\* what AsyncApply is called with: mutations that fill a batch on their own
\* and, where one batch can be in flight, mutations that are not valid
MutationShapes(options) ==
    IF options.max_batches = 1
    THEN {PendingSingleRowMutation(1, options.max_size_per_batch),
          PendingSingleRowMutation(0, 1)}
    ELSE {PendingSingleRowMutation(1, options.max_size_per_batch)}

\* the limits the batcher is made with: one batch in flight, or two
BatcherOptions == {Options(2, 2, 1, 3), Options(2, 2, 2, 3)}

\* a batcher just made
BatcherInit ==
    /\ InitWith(kChunkSizeQuantum)
    /\ reader = IdleReader
    /\ calc = NoCall
    /\ \E options \in BatcherOptions : batcher = NewMutationBatcher(options)

\* the batcher after a first call that admitted: AsyncApply on thread 1,
\* from the call to the return, of a mutation that fills a batch, which is
\* now in flight
InFlight(options) ==
    AsyncApplyCallbacks(
        AsyncApply(
            AsyncApplyEnter(NewMutationBatcher(options), 1,
                PendingSingleRowMutation(1, options.max_size_per_batch)),
            1, TRUE),
        1)

FlightInit ==
    /\ InitWith(kChunkSizeQuantum)
    /\ reader = IdleReader
    /\ calc = NoCall
    /\ batcher = InFlight(Options(2, 2, 1, 3))

\* the application threads are alike: a call is made on the first idle one
Caller(t) ==
    /\ batcher.apps[t].pc = "idle"
    /\ \A u \in AppThreads : u < t => batcher.apps[u].pc # "idle"

StreamsUnchanged ==
    UNCHANGED <<streambuf, session, validator, calls, crashed, written, ret,
                nops, twin, reader, calc>>

Batches == 1..Len(batcher.flushed)

\* a thread that waits for the mutex has done nothing the others can see:
\* its call starts when it gets the mutex
ApplyEnter ==
    /\ Len(batcher.muts) < MaxMutations
    /\ batcher.mu_ = 0
    /\ \E t \in AppThreads, mut \in MutationShapes(batcher.options_) :
          /\ Caller(t)
          /\ batcher' = AsyncApplyEnter(batcher, t, mut)
    /\ StreamsUnchanged

ApplyLocked ==
    /\ \E t \in AppThreads, can_append \in BOOLEAN :
          /\ batcher.apps[t].pc = "locked"
          /\ batcher' = AsyncApply(batcher, t, can_append)
    /\ StreamsUnchanged

ApplyCallbacks ==
    /\ \E t \in AppThreads :
          /\ batcher.apps[t].pc \in {"invalid", "admitted"}
          /\ batcher' = AsyncApplyCallbacks(batcher, t)
    /\ StreamsUnchanged

\* StreamingAsyncBulkApply reports entries of a batch as done
MutationsSucceeded ==
    /\ \E k \in Batches :
          /\ batcher.flushed[k].pc = "idle"
          /\ \E indices \in SUBSET batcher.flushed[k].mutation_data \ {{}} :
                batcher' = OnSuccessfulMutations(batcher, k, indices)
    /\ StreamsUnchanged

\* StreamingAsyncBulkApply reports entries of a batch as failed
MutationsFailed ==
    /\ \E k \in Batches :
          /\ batcher.flushed[k].pc = "idle"
          /\ \E failed \in SUBSET batcher.flushed[k].mutation_data \ {{}} :
                batcher' = OnFailedMutations(batcher, k, failed)
    /\ StreamsUnchanged

\* StreamingAsyncBulkApply reports the end of the first attempt of a batch
AttemptFinished ==
    /\ \E k \in Batches :
          /\ batcher.flushed[k].pc = "idle"
          /\ ~batcher.flushed[k].attempt_finished
          /\ batcher' = OnBulkApplyAttemptFinished(batcher, k)
    /\ StreamsUnchanged

CallbackTakesLock ==
    /\ batcher.mu_ = 0
    /\ \E k \in Batches :
          /\ batcher.flushed[k].pc = "lock"
          /\ batcher' = CallbackLock(batcher, k)
    /\ StreamsUnchanged

CallbackHoldsLock ==
    /\ \E k \in Batches :
          /\ batcher.flushed[k].pc = "locked"
          /\ batcher' = CallbackLocked(batcher, k)
    /\ StreamsUnchanged

CallbackReturns ==
    /\ \E k \in Batches :
          /\ batcher.flushed[k].pc = "unlocked"
          /\ batcher' = CallbackUnlocked(batcher, k)
    /\ StreamsUnchanged

BatcherNext ==
    \/ ApplyEnter \/ ApplyLocked \/ ApplyCallbacks
    \/ MutationsSucceeded \/ MutationsFailed \/ AttemptFinished
    \/ CallbackTakesLock \/ CallbackHoldsLock \/ CallbackReturns

BatcherSpec == BatcherInit /\ [][BatcherNext]_vars

\* every user callback invoked so far
CallbacksInvoked ==
    {<<id, i>> \in (1..Len(batcher.muts)) \X (1..4) :
        i <= Len(batcher.muts[id].callbacks)}

(* C22: no admission callback and no completion callback is invoked by a   *)
(* thread that holds mu_, in AsyncApply, TryAdmit, OnSuccessfulMutations   *)
(* and OnFailedMutations, whatever the interleaving of the submitting      *)
(* threads and the completion-queue callbacks.                             *)
C22_CallbacksOutsideLock ==
    \A c \in CallbacksInvoked : ~batcher.muts[c[1]].callbacks[c[2]].mu_held

\* a mutation was admitted by AsyncApply and told so by its caller, and a
\* mutation that had to wait was admitted by TryAdmit and told so by the
\* completion-queue callback, after a completion callback had run there
C22_Witness ==
    /\ \E c \in CallbacksInvoked :
          LET cb == batcher.muts[c[1]].callbacks[c[2]] IN
          /\ cb.kind = "admission"
          /\ cb.thread = "completion queue"
    /\ \E c \in CallbacksInvoked :
          LET cb == batcher.muts[c[1]].callbacks[c[2]] IN
          /\ cb.kind = "admission"
          /\ cb.thread = "application"
    /\ \E c \in CallbacksInvoked :
          LET cb == batcher.muts[c[1]].callbacks[c[2]] IN
          /\ cb.kind = "completion"
          /\ cb.thread = "completion queue"

-----------------------------------------------------------------------------
\* the state of the batcher that mu_ guards
Shared(b) ==
    [pending_mutations_ |-> b.pending_mutations_,
     cur_batch_ |-> b.cur_batch_,
     num_outstanding_batches_ |-> b.num_outstanding_batches_,
     oustanding_size_ |-> b.oustanding_size_]

\* the batcher with its guarded state blanked
Blank(b) ==
    [b EXCEPT !.pending_mutations_ = <<>>, !.cur_batch_ = NewBatch,
              !.num_outstanding_batches_ = 0, !.oustanding_size_ = 0]

\* the thread that holds the mutex is inside AsyncApply or inside a
\* completion-queue callback, past the lock
HolderInside(b) ==
    \/ b.mu_ \in AppThreads /\ b.apps[b.mu_].pc = "locked"
    \/ \E k \in 1..Len(b.flushed) :
          b.mu_ = CqThread(k) /\ b.flushed[k].pc = "locked"

\* what a thread can do next without the mutex does not depend on the
\* guarded state and leaves it alone
UnlockedStepsBlind ==
    LET blank == Blank(batcher)
    IN /\ \A t \in AppThreads, mut \in MutationShapes(batcher.options_) :
             batcher.mu_ = 0 /\ Caller(t) =>
                Blank(AsyncApplyEnter(batcher, t, mut))
                   = Blank(AsyncApplyEnter(blank, t, mut))
       /\ \A t \in AppThreads :
             batcher.apps[t].pc \in {"invalid", "admitted"} =>
                Blank(AsyncApplyCallbacks(batcher, t))
                   = Blank(AsyncApplyCallbacks(blank, t))
       /\ \A k \in Batches :
             /\ batcher.mu_ = 0 /\ batcher.flushed[k].pc = "lock" =>
                   Blank(CallbackLock(batcher, k))
                      = Blank(CallbackLock(blank, k))
             /\ batcher.flushed[k].pc = "unlocked" =>
                   Blank(CallbackUnlocked(batcher, k))
                      = Blank(CallbackUnlocked(blank, k))
             /\ batcher.flushed[k].pc = "idle" =>
                   /\ Blank(OnBulkApplyAttemptFinished(batcher, k))
                         = Blank(OnBulkApplyAttemptFinished(blank, k))
                   /\ \A indices \in SUBSET batcher.flushed[k].mutation_data :
                         /\ Blank(OnSuccessfulMutations(batcher, k, indices))
                               = Blank(OnSuccessfulMutations(blank, k, indices))
                         /\ Blank(OnFailedMutations(batcher, k, indices))
                               = Blank(OnFailedMutations(blank, k, indices))

(* C34: every step that changes pending_mutations_, cur_batch_,            *)
(* num_outstanding_batches_ or oustanding_size_ is taken by the thread     *)
(* that holds mu_, from inside its critical section; and what any thread   *)
(* does without the mutex neither depends on those four nor changes them,  *)
(* whatever the interleaving of AsyncApply calls and callbacks.            *)
C34_SharedStateUnderMutex ==
    /\ [][Shared(batcher') # Shared(batcher) =>
             /\ HolderInside(batcher)
             /\ batcher'.mu_ = 0]_vars
    /\ [](/\ UnlockedStepsBlind
          /\ batcher.mu_ # 0 => HolderInside(batcher))

\* a completion-queue callback holds the mutex while a mutation is queued,
\* a batch is in flight and an application thread, out of its critical
\* section, has its admission callback still to make
C34_Witness ==
    /\ batcher.mu_ \notin AppThreads \cup {0}
    /\ batcher.pending_mutations_ # <<>>
    /\ batcher.num_outstanding_batches_ > 0
    /\ batcher.oustanding_size_ > 0
    /\ \E t \in AppThreads : batcher.apps[t].pc = "admitted"

-----------------------------------------------------------------------------
(* The batcher with batches that are retried: StreamingAsyncBulkApply      *)
(* tries again the entries of a batch that are not done, and reports the   *)
(* end of every attempt.                                                   *)

MaxRetried == 2

\* a batcher just made that lets one batch be in flight
RetryInit ==
    /\ InitWith(kChunkSizeQuantum)
    /\ reader = IdleReader
    /\ calc = NoCall
    /\ batcher = NewMutationBatcher(Options(2, 2, 1, 3))

RetryApplyEnter ==
    /\ Len(batcher.muts) < MaxRetried
    /\ batcher.mu_ = 0
    /\ \E t \in AppThreads,
          mut \in {PendingSingleRowMutation(1, batcher.options_.max_size_per_batch)} :
          /\ Caller(t)
          /\ batcher' = AsyncApplyEnter(batcher, t, mut)
    /\ StreamsUnchanged

\* the end of a later attempt of a batch, made for the entries not done
AttemptFinishedAgain ==
    /\ \E k \in Batches :
          /\ batcher.flushed[k].pc = "idle"
          /\ batcher.flushed[k].attempt_finished
          /\ batcher.flushed[k].mutation_data # {}
          /\ batcher' = OnBulkApplyAttemptFinished(batcher, k)
    /\ StreamsUnchanged

RetryNext ==
    \/ RetryApplyEnter \/ ApplyLocked \/ ApplyCallbacks
    \/ MutationsSucceeded \/ MutationsFailed
    \/ AttemptFinished \/ AttemptFinishedAgain
    \/ CallbackTakesLock \/ CallbackHoldsLock \/ CallbackReturns

RetrySpec == RetryInit /\ [][RetryNext]_vars

\* the batches whose first attempt has not been counted as finished: the
\* notice has not come, or its callback has not yet counted it under mu_
Unfinished ==
    {k \in Batches :
        \/ ~batcher.flushed[k].attempt_finished
        \/ /\ batcher.flushed[k].pc \in {"lock", "locked"}
           /\ batcher.flushed[k].event = "attempt"}

(* C35: num_outstanding_batches_ is never negative and never above         *)
(* max_batches; it is the number of flushed batches whose first attempt    *)
(* has not finished, so it goes down once for a batch, on the first        *)
(* attempt-finished notice, and not again when a retried batch reports     *)
(* attempt-finished once more.                                             *)
C35_OutstandingBatchesBounded ==
    /\ batcher.num_outstanding_batches_ >= 0
    /\ batcher.num_outstanding_batches_ <= batcher.options_.max_batches
    /\ batcher.num_outstanding_batches_ = Cardinality(Unfinished)

\* a batch was retried and reported attempt-finished again while a later
\* batch, flushed into the slot it had freed, was still in its first attempt
C35_Witness ==
    \E k \in Batches, j \in Batches :
        /\ k < j
        /\ batcher.flushed[k].retried
        /\ batcher.flushed[k].pc = "idle"
        /\ j \in Unfinished
        /\ batcher.num_outstanding_batches_ = batcher.options_.max_batches

-----------------------------------------------------------------------------
\* the mutations of a sequence of requests, as a set
Members(requests) == {requests[i] : i \in 1..Len(requests)}

\* the mutations admitted so far: in the current batch or in a flushed one
Admitted ==
    Members(batcher.cur_batch_.requests)
       \cup UNION {Members(batcher.flushed[k].requests) : k \in Batches}

\* the mutations whose completion callback has run
Completed ==
    {id \in 1..Len(batcher.muts) :
        \E i \in 1..Len(batcher.muts[id].callbacks) :
           batcher.muts[id].callbacks[i].kind = "completion"}

RECURSIVE RequestSizes(_)
RequestSizes(ids) ==
    IF ids = {} THEN 0
    ELSE LET id == CHOOSE i \in ids : TRUE
         IN batcher.muts[id].request_size + RequestSizes(ids \ {id})

RECURSIVE NumMutations(_)
NumMutations(ids) ==
    IF ids = {} THEN 0
    ELSE LET id == CHOOSE i \in ids : TRUE
         IN batcher.muts[id].num_mutations + NumMutations(ids \ {id})

\* completed_size of the handlers that have run completion callbacks and
\* have not yet subtracted it from oustanding_size_
RECURSIVE NotYetSubtracted(_)
NotYetSubtracted(ks) ==
    IF ks = {} THEN 0
    ELSE LET k == CHOOSE i \in ks : TRUE
         IN batcher.flushed[k].completed_size + NotYetSubtracted(ks \ {k})

\* the limits of the claim
WithinLimits ==
    /\ batcher.oustanding_size_ <= batcher.options_.max_oustanding_size
    /\ batcher.cur_batch_.requests_size <= batcher.options_.max_size_per_batch
    /\ batcher.cur_batch_.num_mutations
          <= batcher.options_.max_mutations_per_batch

\* the current batch counts what it holds
BatchCounted ==
    /\ batcher.cur_batch_.requests_size
          = RequestSizes(Members(batcher.cur_batch_.requests))
    /\ batcher.cur_batch_.num_mutations
          = NumMutations(Members(batcher.cur_batch_.requests))

Fits(mut) ==
    /\ batcher.oustanding_size_ + mut.request_size
          <= batcher.options_.max_oustanding_size
    /\ batcher.cur_batch_.requests_size + mut.request_size
          <= batcher.options_.max_size_per_batch
    /\ batcher.cur_batch_.num_mutations + mut.num_mutations
          <= batcher.options_.max_mutations_per_batch

\* the step is an AsyncApply that admits its mutation at once, on the word
\* of CanAppendToBatch, though the mutation does not fit
AdmitsPastLimits ==
    \E t \in AppThreads :
        /\ batcher.apps[t].pc = "locked"
        /\ batcher'.apps[t].pc = "admitted"
        /\ ~Fits(batcher.muts[batcher.apps[t].pending])

-----------------------------------------------------------------------------
(* C37: whenever mu_ is not held, the current batch is empty or            *)
(* num_outstanding_batches_ equals max_batches: no non-empty batch is left *)
(* unflushed while a batch slot is free.                                   *)
C37_NoIdleSlotWithBatch ==
    batcher.mu_ = 0 =>
       \/ batcher.cur_batch_.num_mutations = 0
       \/ batcher.num_outstanding_batches_ = batcher.options_.max_batches

\* between operations a non-empty batch waits behind max_batches batches,
\* after an earlier batch has given its slot back
C37_Witness ==
    /\ batcher.mu_ = 0
    /\ batcher.cur_batch_.num_mutations > 0
    /\ batcher.num_outstanding_batches_ = batcher.options_.max_batches
    /\ \E k \in Batches : batcher.flushed[k].attempt_finished

-----------------------------------------------------------------------------
(* The batcher given mutations that are not valid, of every kind, among    *)
(* valid ones that fill the batch and the queue.                           *)
MaxRejected == 3

RejectShapes(options) ==
    {PendingSingleRowMutation(1, options.max_size_per_batch),
     PendingSingleRowMutation(0, 1),
     PendingSingleRowMutation(options.max_mutations_per_batch + 1, 1),
     PendingSingleRowMutation(1, options.max_size_per_batch + 1)}

RejectEnter ==
    /\ Len(batcher.muts) < MaxRejected
    /\ batcher.mu_ = 0
    /\ \E t \in AppThreads, mut \in RejectShapes(batcher.options_) :
          /\ Caller(t)
          /\ batcher' = AsyncApplyEnter(batcher, t, mut)
    /\ StreamsUnchanged

\* the client reports every entry of a batch as done
RejectNext ==
    \/ RejectEnter \/ ApplyLocked \/ ApplyCallbacks
    \/ MutationsSucceeded \/ AttemptFinished
    \/ CallbackTakesLock \/ CallbackHoldsLock \/ CallbackReturns

RejectSpec == FlightInit /\ [][RejectNext]_vars

\* the mutations in the pending queue
Queued == Members(batcher.pending_mutations_)

\* the three ways of the claim in which a mutation is not valid
NotValid(mut) ==
    \/ mut.num_mutations = 0
    \/ mut.num_mutations > batcher.options_.max_mutations_per_batch
    \/ mut.request_size > batcher.options_.max_size_per_batch

\* thread t, inside AsyncApply, takes a step
Moves(t) == batcher.apps[t].pc # "idle" /\ batcher'.apps[t] # batcher.apps[t]

\* thread t returns from AsyncApply in this step
Returns(t) == Moves(t) /\ batcher'.apps[t].pc = "idle"

\* what the batcher holds of the mutations given to it
Held(b) ==
    [pending_mutations_ |-> b.pending_mutations_, cur_batch_ |-> b.cur_batch_,
     oustanding_size_ |-> b.oustanding_size_,
     num_outstanding_batches_ |-> b.num_outstanding_batches_,
     flushed |-> b.flushed]

Rejection ==
    <<[kind |-> "completion", status |-> "INVALID_ARGUMENT",
       thread |-> "application", mu_held |-> FALSE],
      [kind |-> "admission", status |-> "OK",
       thread |-> "application", mu_held |-> FALSE]>>

(* C40: AsyncApply of a mutation that is not valid (no mutations, more     *)
(* than max_mutations_per_batch, or larger than max_size_per_batch) calls  *)
(* its completion callback once with INVALID_ARGUMENT and then its         *)
(* admission callback once, and leaves the pending queue, the current      *)
(* batch, oustanding_size_ and num_outstanding_batches_ as they were: no   *)
(* step of the call changes them, and the call returns with exactly the    *)
(* two callbacks made; the mutation is never queued, admitted or sent, and *)
(* gets no callback after.                                                 *)
C40_InvalidMutationRejected ==
    /\ [][\A t \in AppThreads :
             Moves(t) /\ NotValid(batcher.muts[batcher.apps[t].pending]) =>
                /\ Held(batcher') = Held(batcher)
                /\ batcher'.muts[batcher.apps[t].pending].callbacks =
                      IF Returns(t) THEN Rejection ELSE <<>>]_vars
    /\ [](\A id \in 1..Len(batcher.muts) :
             NotValid(batcher.muts[id]) =>
                /\ id \notin Queued \cup Admitted
                /\ batcher.muts[id].callbacks \in {<<>>, Rejection})

\* a mutation that is too large was turned down while a valid mutation,
\* submitted before it, waited in the queue behind a batch in flight
C40_Witness ==
    /\ batcher.mu_ = 0
    /\ batcher.pending_mutations_ # <<>>
    /\ batcher.num_outstanding_batches_ > 0
    /\ \E id \in 1..Len(batcher.muts) :
          /\ batcher.muts[id].request_size > batcher.options_.max_size_per_batch
          /\ batcher.muts[id].callbacks = Rejection
          /\ \A q \in Queued : q < id

-----------------------------------------------------------------------------
(* Sanity of the storage model *)

PutAreaInsideStorage ==
    /\ streambuf.size <= Size(streambuf.store)
    /\ streambuf.pptr <= streambuf.cap
    /\ streambuf.size <= streambuf.cap
    /\ streambuf.pbase_valid => streambuf.pptr <= Size(streambuf.store)
    /\ streambuf.epptr <= streambuf.pptr

MovedOnlyWithoutReserve ==
    streambuf.max_buffer_size_ > 0 => streambuf.pbase_valid

====
